---------------------------- MODULE Spec2Model ----------------------------
(***************************************************************************)
(* Model of the oracle-analysis package.                                   *)
(*                                                                         *)
(*   Spec         MarketEventFetcher.fetch_events: the batched, retrying   *)
(*                event fetch over a block range (market/events.py).       *)
(*                                                                         *)
(*   SpecScorer   OracleIdentifier.calculate_confidence as a pure function  *)
(*                of its arguments (oracle/identifiers.py).                *)
(*                                                                         *)
(* Confidence values are IEEE 754 doubles, as Python's float is: every     *)
(* division, product and sum is rounded to the nearest double.             *)
(*                                                                         *)
(*   SpecIdentify OracleIdentifier.identify_oracle called twice for one    *)
(*                address while blocks are mined (oracle/identifiers.py).  *)
(*                                                                         *)
(*   SpecRun      OracleAnalysis._analyze_oracles over the oracle addresses *)
(*                of a list of market events (main.py).                    *)
(*                                                                         *)
(*   SpecFair     Spec with the program's steps weakly fair, for           *)
(*                termination.                                             *)
(*                                                                         *)
(*   SpecLookup   MarketEventFetcher.get_market_params called around a     *)
(*                fetch_events run of the same fetcher (market/events.py). *)
(*                                                                         *)
(* Bytecode is a sequence of bytes; HexBytes.hex() and Python's substring  *)
(* test are computed on sequences of characters.                           *)
(*                                                                         *)
(* Time is counted in milliseconds: Config.DELAY_BETWEEN_REQUESTS = 0.1 s  *)
(* is 100.  The node is the environment: every answer it gives (the logs   *)
(* of a range, a transient error, any other error) is a nondeterministic   *)
(* choice of the action that issues the request.                           *)
(***************************************************************************)
EXTENDS Integers, Sequences, FiniteSets

(***************************************************************************)
(* Bounds of the model.                                                    *)
(***************************************************************************)
\* blocks of the modelled chain are 0..MaxBlock
MaxBlock == 3
\* batch_size is drawn from 1..MaxBatch
MaxBatch == 2
\* the scorer's patterns have 0..MaxF function fragments, 0..MaxS storage
\* fragments and required_function_matches in 1..MaxReq
MaxF == 5
MaxS == 3
MaxReq == 3
\* at most MaxLookups calls of get_market_params are made
MaxLookups == 2
\* a modelled bytecode holds at most MaxSelectors selectors of the palette
MaxSelectors == 4
\* _analyze_oracles gets 1..MaxEvents market events
MaxEvents == 2

(***************************************************************************)
(* Program constants (config.py).                                          *)
(***************************************************************************)
MAX_RETRIES == 3
DELAY_BETWEEN_REQUESTS == 100

Blocks == 0..MaxBlock

Min(a, b) == IF a <= b THEN a ELSE b

VARIABLES
    \* ---- the chain, as the node serves it
    log_blocks,      \* the blocks that hold a CreateMarket log of the contract
    \* ---- fetch_events: arguments
    start_block, end_block, batch_size,
    end_block_given, \* the caller passed end_block; otherwise end_block is
                     \* what w3.eth.block_number answers at line 116
    \* ---- fetch_events: locals and position
    pc,              \* "call", "try", "finally", "exit", "returned", "raised"
    batch_start,     \* the loop variable of line 128
    all_events,      \* line 122
    retry_count,     \* fetch_events_batch's retry_count of the running attempt
    batch_result,    \* how the sub-range ended: "none", "ok", "exhausted", "error"
    batch_events,    \* what fetch_events_batch returned for the sub-range
    returned,        \* the value fetch_events returned
    raised_exc,      \* the exception fetch_events raised, or "none"
    \* ---- observations of the run (what the node and the clock saw)
    block_number_queries, \* the w3.eth.block_number queries issued so far
    queries,         \* the log-filter queries issued for the current sub-range
    log_queries,     \* the number of log-filter queries issued so far
    block_lookups,   \* the blocks given to w3.eth.get_block (line 59) for
                     \* the current sub-range
    discarded,       \* the events _process_event built in attempts of the
                     \* current sub-range that then failed
    backoff_sleeps,  \* the backoff waits slept for the current sub-range
    batches,         \* the sub-ranges completed so far, with their outcome
    rate_sleeps,     \* the inter-request waits slept so far (line 148)
    \* ---- calculate_confidence: arguments, position and outcome
    sc_matched_functions, sc_matched_storage, sc_pattern, sc_factory_match,
    sc_pc,           \* "call", "done"
    sc_result,       \* the value returned, or the exception raised
    \* ---- identify_oracle: the address, the chain and the calls made
    id_address,      \* the address identified
    id_code,         \* the bytecode deployed at id_address (never changes)
    head_sender,     \* sender of the first transaction of the latest block
    id_first,        \* the first call: what the node answered and the result
    id_second,       \* the second call, likewise
    \* ---- _analyze_oracles: argument, chain, locals and position
    market_events,   \* the argument: a list of MarketEvent
    run_code,        \* the bytecode deployed at each oracle address
    run_head,        \* sender of the first transaction of the latest block
    run_pc,          \* "loop", "returned", "raised"
    oracle_analysis, \* line 79: address -> analysis
    run_calls,       \* the identify_oracle calls made, in order
    \* ---- get_market_params: the calls made
    lookups          \* the get_market_params calls made, in order: the
                     \* argument, what the contract call answered, where
                     \* fetch_events stood, and the outcome

fetchVars == <<log_blocks, start_block, end_block, batch_size, end_block_given,
               pc, batch_start, all_events, retry_count, batch_result,
               batch_events, returned, raised_exc, block_number_queries,
               queries, log_queries, block_lookups, discarded,
               backoff_sleeps, batches, rate_sleeps>>

scVars == <<sc_matched_functions, sc_matched_storage, sc_pattern,
            sc_factory_match, sc_pc, sc_result>>

idVars == <<id_address, id_code, head_sender, id_first, id_second>>

runVars == <<market_events, run_code, run_head, run_pc, oracle_analysis,
             run_calls>>

lookupVars == <<lookups>>

vars == <<fetchVars, scVars, idVars, runVars, lookupVars>>

\* what each specification leaves alone
notFetch == <<scVars, idVars, runVars, lookupVars>>
notScorer == <<fetchVars, idVars, runVars, lookupVars>>
notIdentify == <<fetchVars, scVars, runVars, lookupVars>>
notRun == <<fetchVars, scVars, idVars, lookupVars>>

\* Optional[...]: None, or a value
None == <<>>
Some(v) == <<v>>

(***************************************************************************)
(* MarketEventFetcher (market/events.py)                                   *)
(***************************************************************************)

\* self.retry_delay, self.max_retries (lines 52-53)
retry_delay == DELAY_BETWEEN_REQUESTS
max_retries == MAX_RETRIES

\* A raw log of the node: one CreateMarket log per block of log_blocks.
RawLog(b) == [id |-> b, blockNumber |-> b]

\* event_filter.get_all_entries() for fromBlock..toBlock (lines 81-86): the
\* logs of the range in the node's order, ascending block number.
RECURSIVE get_all_entries(_, _)
get_all_entries(from, to) ==
    IF from > to THEN <<>>
    ELSE (IF from \in log_blocks THEN <<RawLog(from)>> ELSE <<>>)
         \o get_all_entries(from + 1, to)

\* _process_event (lines 55-68): one MarketEvent per raw log.
process_event(event) == [id |-> event.id, block_number |-> event.blockNumber]

\* the list comprehension of line 87
process_all(events) == [i \in 1..Len(events) |-> process_event(events[i])]

\* the blocks of the first k logs of a list of raw logs: _process_event looks
\* up the block of each log in turn (line 59)
BlocksOf(events, k) == {events[i].blockNumber : i \in 1..k}

\* the MarketEvents the list comprehension of line 87 has built when the
\* attempt fails with k block lookups made: the lookup of the k-th log or the
\* construction that follows it raised, the k - 1 logs before it are built
built_before(events, k) ==
    IF k = 0 THEN <<>> ELSE process_all(SubSeq(events, 1, k - 1))

\* line 129
batch_end_unclamped(bs) == bs + batch_size - 1
batch_end_of(bs) == Min(bs + batch_size - 1, end_block)

batch_end == batch_end_of(batch_start)

\* lines 128-129 as a function of the arguments: the sub-ranges
\* range(start, end + 1, size) yields, each with its batch_end
RECURSIVE sub_ranges(_, _, _)
sub_ranges(start, end, size) ==
    IF start > end THEN <<>>
    ELSE <<<<start, Min(start + size - 1, end)>>>> \o
         sub_ranges(start + size, end, size)

\* line 123
total_batches(start, end, size) == (end - start) \div size + 1

\* line 95: the wait before the next attempt
backoff_delay_exponential(rc) == retry_delay * (2 ^ rc)
backoff_delay(rc) == retry_delay * (rc + 1)

\* line 90: the retries are used up
retries_exhausted_off_by_one(rc) == rc > max_retries
retries_exhausted(rc) == rc >= max_retries

(***************************************************************************)
(* fetch_events, lines 115-122: the range check and the start of the loop. *)
(***************************************************************************)
FetchEventsUnchecked ==
    /\ pc = "call"
    /\ block_number_queries' =
          IF end_block_given THEN block_number_queries
          ELSE block_number_queries + 1
    /\ pc' = "try"
    /\ batch_start' = start_block
    /\ UNCHANGED <<log_blocks, start_block, end_block, batch_size,
                   end_block_given, all_events, retry_count, batch_result,
                   batch_events, returned, raised_exc, queries, log_queries,
                   block_lookups,
                   discarded,
                   backoff_sleeps, batches, rate_sleeps>>
    /\ UNCHANGED notFetch

FetchEvents ==
    /\ pc = "call"
    /\ block_number_queries' =                   \* line 116
          IF end_block_given THEN block_number_queries
          ELSE block_number_queries + 1
    /\ IF start_block > end_block
       THEN /\ pc' = "raised"                    \* ValueError, line 120
            /\ raised_exc' = "ValueError"
            /\ UNCHANGED batch_start
       ELSE /\ pc' = "try"
            /\ batch_start' = start_block        \* first value of the range()
            /\ UNCHANGED raised_exc
    /\ UNCHANGED <<log_blocks, start_block, end_block, batch_size,
                   end_block_given, all_events, retry_count, batch_result,
                   batch_events, returned, queries, log_queries, block_lookups,
                   discarded,
                   backoff_sleeps, batches, rate_sleeps>>
    /\ UNCHANGED notFetch

\* line 116: end_block was not passed and the node fails to answer
\* w3.eth.block_number; nothing in fetch_events catches the exception.
FetchEventsBlockNumberFails ==
    /\ pc = "call"
    /\ ~end_block_given
    /\ block_number_queries' = block_number_queries + 1
    /\ pc' = "raised"
    /\ raised_exc' = "Web3Exception"
    /\ UNCHANGED <<log_blocks, start_block, end_block, batch_size,
                   end_block_given, batch_start, all_events, retry_count,
                   batch_result, batch_events, returned, queries, log_queries,
                   block_lookups, discarded, backoff_sleeps, batches, rate_sleeps>>
    /\ UNCHANGED notFetch

(***************************************************************************)
(* fetch_events_batch succeeds (lines 80-87) and fetch_events extends      *)
(* all_events with what it returned (lines 132-133).                       *)
(***************************************************************************)
BatchOkPrepends ==
    /\ pc = "try"
    /\ LET events == get_all_entries(batch_start, batch_end)
           got == process_all(events)
       IN  /\ batch_events' = got
           /\ all_events' = got \o all_events
           /\ block_lookups' = block_lookups \cup BlocksOf(events, Len(events))
           /\ UNCHANGED discarded
    /\ queries' = Append(queries, <<batch_start, batch_end>>)
    /\ log_queries' = log_queries + 1
    /\ batch_result' = "ok"
    /\ pc' = "finally"
    /\ UNCHANGED <<log_blocks, start_block, end_block, batch_size,
                   end_block_given, batch_start, retry_count, returned,
                   raised_exc, block_number_queries, backoff_sleeps, batches,
                   rate_sleeps>>
    /\ UNCHANGED notFetch

BatchOk ==
    /\ pc = "try"
    /\ LET events == get_all_entries(batch_start, batch_end)
           got == process_all(events)
       IN  /\ batch_events' = got
           /\ all_events' = all_events \o got
           /\ block_lookups' = block_lookups \cup BlocksOf(events, Len(events))
           /\ UNCHANGED discarded
    /\ queries' = Append(queries, <<batch_start, batch_end>>)
    /\ log_queries' = log_queries + 1
    /\ batch_result' = "ok"
    /\ pc' = "finally"
    /\ UNCHANGED <<log_blocks, start_block, end_block, batch_size,
                   end_block_given, batch_start, retry_count, returned,
                   raised_exc, block_number_queries, backoff_sleeps, batches,
                   rate_sleeps>>
    /\ UNCHANGED notFetch

(***************************************************************************)
(* The attempt raises BlockNotFound or ContractLogicError and retries are  *)
(* left (lines 89-96): wait, then the same sub-range again.                *)
(***************************************************************************)
BatchRetryKeepsBuilt ==
    /\ pc = "try"
    /\ ~retries_exhausted(retry_count)
    /\ queries' = Append(queries, <<batch_start, batch_end>>)
    /\ log_queries' = log_queries + 1
    /\ LET events == get_all_entries(batch_start, batch_end)
       IN  \E k \in 0..Len(events) :
              /\ block_lookups' = block_lookups \cup BlocksOf(events, k)
              /\ discarded' = discarded \o built_before(events, k)
              /\ all_events' = all_events \o built_before(events, k)
    /\ backoff_sleeps' = Append(backoff_sleeps, backoff_delay(retry_count))
    /\ retry_count' = retry_count + 1
    /\ UNCHANGED <<log_blocks, start_block, end_block, batch_size,
                   end_block_given, pc, batch_start, batch_result,
                   batch_events, returned, raised_exc, block_number_queries,
                   batches, rate_sleeps>>
    /\ UNCHANGED notFetch

BatchRetry ==
    /\ pc = "try"
    /\ ~retries_exhausted(retry_count)
    /\ queries' = Append(queries, <<batch_start, batch_end>>)
    /\ log_queries' = log_queries + 1
    /\ LET events == get_all_entries(batch_start, batch_end)
       IN  \E k \in 0..Len(events) :
              /\ block_lookups' = block_lookups \cup BlocksOf(events, k)
              /\ discarded' = discarded \o built_before(events, k)
    /\ backoff_sleeps' = Append(backoff_sleeps, backoff_delay(retry_count))
    /\ retry_count' = retry_count + 1
    /\ UNCHANGED <<log_blocks, start_block, end_block, batch_size,
                   end_block_given, pc, batch_start, all_events, batch_result,
                   batch_events, returned, raised_exc, block_number_queries,
                   batches, rate_sleeps>>
    /\ UNCHANGED notFetch

(***************************************************************************)
(* The attempt raises a transient error and no retry is left: line 92      *)
(* re-raises, every enclosing fetch_events_batch frame lets it through and *)
(* fetch_events catches it (lines 140-144).                                *)
(***************************************************************************)
BatchRetriesExhaustedAborts ==
    /\ pc = "try"
    /\ retries_exhausted(retry_count)
    /\ queries' = Append(queries, <<batch_start, batch_end>>)
    /\ log_queries' = log_queries + 1
    /\ batch_result' = "exhausted"
    /\ pc' = "raised"
    /\ LET events == get_all_entries(batch_start, batch_end)
       IN  \E k \in 0..Len(events) :
              /\ block_lookups' = block_lookups \cup BlocksOf(events, k)
              /\ discarded' = discarded \o built_before(events, k)
    /\ UNCHANGED <<log_blocks, start_block, end_block, batch_size,
                   end_block_given, batch_start, all_events, retry_count,
                   batch_events, returned, raised_exc, block_number_queries,
                   backoff_sleeps, batches, rate_sleeps>>
    /\ UNCHANGED notFetch

BatchRetriesExhausted ==
    /\ pc = "try"
    /\ retries_exhausted(retry_count)
    /\ queries' = Append(queries, <<batch_start, batch_end>>)
    /\ log_queries' = log_queries + 1
    /\ batch_result' = "exhausted"
    /\ pc' = "finally"
    /\ LET events == get_all_entries(batch_start, batch_end)
       IN  \E k \in 0..Len(events) :
              /\ block_lookups' = block_lookups \cup BlocksOf(events, k)
              /\ discarded' = discarded \o built_before(events, k)
    /\ UNCHANGED <<log_blocks, start_block, end_block, batch_size,
                   end_block_given, batch_start, all_events, retry_count,
                   batch_events, returned, raised_exc, block_number_queries,
                   backoff_sleeps, batches, rate_sleeps>>
    /\ UNCHANGED notFetch

(***************************************************************************)
(* The attempt raises anything else: fetch_events_batch has no handler for *)
(* it, fetch_events catches it (lines 140-144).                            *)
(***************************************************************************)
BatchOtherErrorBacksOff ==
    /\ pc = "try"
    /\ queries' = Append(queries, <<batch_start, batch_end>>)
    /\ log_queries' = log_queries + 1
    /\ batch_result' = "error"
    /\ pc' = "finally"
    /\ LET events == get_all_entries(batch_start, batch_end)
       IN  \E k \in 0..Len(events) :
              /\ block_lookups' = block_lookups \cup BlocksOf(events, k)
              /\ discarded' = discarded \o built_before(events, k)
    /\ backoff_sleeps' = Append(backoff_sleeps, backoff_delay(retry_count))
    /\ UNCHANGED <<log_blocks, start_block, end_block, batch_size,
                   end_block_given, batch_start, all_events, retry_count,
                   batch_events, returned, raised_exc, block_number_queries,
                   batches, rate_sleeps>>
    /\ UNCHANGED notFetch

BatchOtherError ==
    /\ pc = "try"
    /\ queries' = Append(queries, <<batch_start, batch_end>>)
    /\ log_queries' = log_queries + 1
    /\ batch_result' = "error"
    /\ pc' = "finally"
    /\ LET events == get_all_entries(batch_start, batch_end)
       IN  \E k \in 0..Len(events) :
              /\ block_lookups' = block_lookups \cup BlocksOf(events, k)
              /\ discarded' = discarded \o built_before(events, k)
    /\ UNCHANGED <<log_blocks, start_block, end_block, batch_size,
                   end_block_given, batch_start, all_events, retry_count,
                   batch_events, returned, raised_exc, block_number_queries,
                   backoff_sleeps, batches, rate_sleeps>>
    /\ UNCHANGED notFetch

(***************************************************************************)
(* The finally clause (lines 146-148) and the next value of the range() of *)
(* line 128.                                                               *)
(***************************************************************************)
BatchFinallySleepsAfterSuccess ==
    /\ pc = "finally"
    /\ rate_sleeps' = IF batch_result = "ok"
                      THEN Append(rate_sleeps, retry_delay)
                      ELSE rate_sleeps
    /\ batches' = Append(batches, [batch_start |-> batch_start,
                                   batch_end |-> batch_end,
                                   result |-> batch_result])
    /\ batch_start' = batch_start + batch_size
    /\ pc' = IF batch_start + batch_size < end_block + 1 THEN "try" ELSE "exit"
    /\ retry_count' = 0
    /\ queries' = <<>>
    /\ UNCHANGED log_queries
    /\ backoff_sleeps' = <<>>
    /\ batch_result' = "none"
    /\ batch_events' = <<>>
    /\ block_lookups' = {}
    /\ discarded' = <<>>
    /\ UNCHANGED <<log_blocks, start_block, end_block, batch_size,
                   end_block_given, all_events, returned, raised_exc,
                   block_number_queries>>
    /\ UNCHANGED notFetch

BatchFinally ==
    /\ pc = "finally"
    /\ rate_sleeps' = Append(rate_sleeps, retry_delay)
    /\ batches' = Append(batches, [batch_start |-> batch_start,
                                   batch_end |-> batch_end,
                                   result |-> batch_result])
    /\ batch_start' = batch_start + batch_size
    /\ pc' = IF batch_start + batch_size < end_block + 1 THEN "try" ELSE "exit"
    /\ retry_count' = 0
    /\ queries' = <<>>
    /\ UNCHANGED log_queries
    /\ backoff_sleeps' = <<>>
    /\ batch_result' = "none"
    /\ batch_events' = <<>>
    /\ block_lookups' = {}
    /\ discarded' = <<>>
    /\ UNCHANGED <<log_blocks, start_block, end_block, batch_size,
                   end_block_given, all_events, returned, raised_exc,
                   block_number_queries>>
    /\ UNCHANGED notFetch

\* lines 150-151
FetchEventsReturn ==
    /\ pc = "exit"
    /\ returned' = all_events
    /\ pc' = "returned"
    /\ UNCHANGED <<log_blocks, start_block, end_block, batch_size,
                   end_block_given, batch_start, all_events, retry_count,
                   batch_result, batch_events, raised_exc,
                   block_number_queries, queries, log_queries, block_lookups,
                   discarded,
                   backoff_sleeps, batches, rate_sleeps>>
    /\ UNCHANGED notFetch

InitFetch ==
    /\ log_blocks \in SUBSET Blocks
    /\ start_block \in Blocks
    /\ end_block \in Blocks
    /\ batch_size \in 1..MaxBatch
    /\ end_block_given \in BOOLEAN
    /\ pc = "call"
    /\ batch_start = 0
    /\ all_events = <<>>
    /\ retry_count = 0
    /\ batch_result = "none"
    /\ batch_events = <<>>
    /\ returned = <<>>
    /\ raised_exc = "none"
    /\ block_number_queries = 0
    /\ queries = <<>>
    /\ log_queries = 0
    /\ block_lookups = {}
    /\ discarded = <<>>
    /\ backoff_sleeps = <<>>
    /\ batches = <<>>
    /\ rate_sleeps = <<>>

\* the variables of the other specifications, at rest
ScorerIdle ==
    /\ sc_matched_functions = <<>>
    /\ sc_matched_storage = <<>>
    /\ sc_pattern = [function_patterns |-> <<>>, storage_patterns |-> <<>>,
                     required_function_matches |-> 1,
                     factory_addresses |-> <<>>]
    /\ sc_factory_match = FALSE
    /\ sc_pc = "idle"
    /\ sc_result = [exc |-> "none", value |-> [m |-> <<>>, e |-> 0]]

IdentifyIdle ==
    /\ id_address = ""
    /\ id_code = <<>>
    /\ head_sender = ""
    /\ id_first = None
    /\ id_second = None

RunIdle ==
    /\ market_events = <<>>
    /\ run_code = <<>>
    /\ run_head = ""
    /\ run_pc = "idle"
    /\ oracle_analysis = <<>>
    /\ run_calls = <<>>

LookupIdle == lookups = <<>>

Init == InitFetch /\ ScorerIdle /\ IdentifyIdle /\ RunIdle /\ LookupIdle

Next ==
    \/ FetchEvents
    \/ FetchEventsBlockNumberFails
    \/ BatchOk
    \/ BatchRetry
    \/ BatchRetriesExhausted
    \/ BatchOtherError
    \/ BatchFinally
    \/ FetchEventsReturn

Spec == Init /\ [][Next]_vars

\* fetch_events is sequential code: as long as a step is left to take, it is
\* taken (every request to the node is answered or fails)
SpecFair == Spec /\ WF_vars(Next)

(***************************************************************************)
(* Properties of fetch_events (specification Spec).                        *)
(***************************************************************************)

\* the completed sub-ranges that contain block b
Covering(b) ==
    {i \in 1..Len(batches) :
        batches[i].batch_start <= b /\ b <= batches[i].batch_end}

\* C1: for start_block <= end_block and batch_size >= 1 the sub-ranges that
\* fetch_events iterates over are inclusive, consecutive (each begins at the
\* previous batch_end + 1, the first at start_block, the last ends at
\* end_block) and pairwise disjoint, and their union is exactly
\* [start_block, end_block]: once the loop is over every block of the range
\* lies in exactly one sub-range and no other block lies in any.
C1_SubRangesPartitionRange ==
    /\ \A i \in 1..Len(batches) :
          batches[i].batch_start <= batches[i].batch_end
    /\ Len(batches) > 0 => batches[1].batch_start = start_block
    /\ \A i \in 1..(Len(batches) - 1) :
          batches[i + 1].batch_start = batches[i].batch_end + 1
    /\ pc \in {"try", "finally"} =>
          /\ batch_start = IF batches = <<>> THEN start_block
                           ELSE batches[Len(batches)].batch_end + 1
          /\ batch_start <= batch_end
    /\ pc \in {"exit", "returned"} =>
          /\ Len(batches) > 0
          /\ batches[Len(batches)].batch_end = end_block
          /\ \A b \in 0..(MaxBlock + MaxBatch) :
                Cardinality(Covering(b)) =
                    IF start_block <= b /\ b <= end_block THEN 1 ELSE 0

\* C1 witness: a finished run of several sub-ranges whose last one is shorter
\* than batch_size.
C1_Witness ==
    /\ pc = "returned"
    /\ Len(batches) >= 2
    /\ batches[Len(batches)].batch_end - batches[Len(batches)].batch_start + 1
          < batch_size

\* C2: on transient errors fetch_events_batch queries the same sub-range
\* again, at most max_retries times (max_retries + 1 queries in all); the
\* wait before the k-th retry is retry_delay * k; the events returned are
\* those of the first attempt that succeeds; and the error reaches the caller
\* only when max_retries retries have been made.
C2_RetryPolicy ==
    /\ Len(queries) <= max_retries + 1
    /\ \A i \in 1..Len(queries) : queries[i] = <<batch_start, batch_end>>
    /\ retry_count <= max_retries
    /\ Len(backoff_sleeps) = retry_count
    /\ \A k \in 1..Len(backoff_sleeps) : backoff_sleeps[k] = retry_delay * k
    /\ pc = "try" => Len(queries) = retry_count
    /\ pc = "finally" => Len(queries) = retry_count + 1
    /\ batch_result = "ok" =>
          batch_events = process_all(get_all_entries(batch_start, batch_end))
    /\ batch_result = "exhausted" =>
          /\ Len(queries) = max_retries + 1
          /\ Len(backoff_sleeps) = max_retries

\* C2 witness: a sub-range whose query failed max_retries times, was waited
\* for with growing delays and then returned its events on the last retry.
C2_Witness ==
    /\ pc = "finally"
    /\ batch_result = "ok"
    /\ retry_count = max_retries
    /\ backoff_sleeps = <<retry_delay, 2 * retry_delay, 3 * retry_delay>>
    /\ batch_events # <<>>

\* what the sub-ranges 1..n contribute when each successful one gives all of
\* its events and each failed one gives none
RECURSIVE EventsOfOkBatches(_)
EventsOfOkBatches(n) ==
    IF n = 0 THEN <<>>
    ELSE EventsOfOkBatches(n - 1) \o
         (IF batches[n].result = "ok"
          THEN process_all(get_all_entries(batches[n].batch_start,
                                           batches[n].batch_end))
          ELSE <<>>)

\* C3: a sub-range whose fetch still fails when the retries are used up is
\* skipped: fetch_events does not raise (it raises before the first
\* sub-range only), it goes on to the next sub-range, and what it returns
\* holds every event of every sub-range that succeeded and no event of a
\* block of a sub-range that failed.
C3_FailedSubRangeSkipped ==
    /\ pc = "raised" => batches = <<>> /\ queries = <<>>
    /\ batch_result \in {"exhausted", "error"} =>
          /\ pc = "finally"
          /\ all_events = EventsOfOkBatches(Len(batches))
    /\ pc = "returned" =>
          /\ returned = EventsOfOkBatches(Len(batches))
          /\ \A i \in 1..Len(batches) :
                batches[i].result # "ok" =>
                   \A k \in 1..Len(returned) :
                      ~(/\ batches[i].batch_start <= returned[k].block_number
                        /\ returned[k].block_number <= batches[i].batch_end)

\* C3 witness: a run that returned after a sub-range holding a log ran out of
\* retries, with the events of a later successful sub-range in the result.
C3_Witness ==
    /\ pc = "returned"
    /\ \E i \in 1..Len(batches) :
          /\ batches[i].result = "exhausted"
          /\ \E b \in log_blocks :
                batches[i].batch_start <= b /\ b <= batches[i].batch_end
          /\ \E j \in (i + 1)..Len(batches) :
                /\ batches[j].result = "ok"
                /\ \E k \in 1..Len(returned) :
                      /\ batches[j].batch_start <= returned[k].block_number
                      /\ returned[k].block_number <= batches[j].batch_end

\* fetch_events raised the ValueError of line 120 and nothing of the loop
\* has run: no log-filter query, no block lookup, no retry, no wait, no
\* sub-range
RaisedInvalidRange ==
    /\ pc = "raised"
    /\ raised_exc = "ValueError"

NothingFetched ==
    /\ queries = <<>>
    /\ block_lookups = {}
    /\ retry_count = 0
    /\ backoff_sleeps = <<>>
    /\ batches = <<>>
    /\ rate_sleeps = <<>>
    /\ all_events = <<>>

\* a call whose range is known (the block number was given or answered) and
\* has start_block > end_block raises the ValueError and does nothing else
InvalidRangeRaises ==
    /\ (pc # "call" /\ raised_exc # "Web3Exception" /\ start_block > end_block)
          => RaisedInvalidRange
    /\ RaisedInvalidRange => start_block > end_block /\ NothingFetched

\* C11 as claimed: fetch_events called with start_block > end_block fails
\* with the range error before any network call is made (no block-number
\* query, no log-filter query, no block lookup), it is not retried and no
\* sub-range is processed.
C11_InvalidRangeBeforeAnyNetworkCall ==
    /\ InvalidRangeRaises
    /\ RaisedInvalidRange => block_number_queries = 0

\* C11 as amended: fetch_events called with start_block > end_block fails
\* with the range error before any log-filter query or block lookup is made,
\* it is not retried and no sub-range is processed; the only network call
\* that precedes the error is the one block-number query that gives
\* end_block when the caller passes none.
C11_InvalidRangeBeforeAnyLogQuery ==
    /\ InvalidRangeRaises
    /\ RaisedInvalidRange =>
          block_number_queries = IF end_block_given THEN 0 ELSE 1

\* C11 witness: the caller passed no end_block, the node answered a block
\* number below start_block and fetch_events raised the range error.
C11_Witness ==
    /\ RaisedInvalidRange
    /\ ~end_block_given
    /\ start_block > end_block
    /\ block_number_queries = 1

\* C12: fetch_events processes the sub-ranges one after the other in
\* ascending order: every query issued is for the one sub-range being
\* fetched, which lies after every completed sub-range and is not completed
\* itself; and the events gathered (at the end, the events returned) are the
\* concatenation, in ascending sub-range order, of the events of each
\* successful sub-range in the order the node reported them, one
\* MarketEvent per raw log.
C12_SequentialAscending ==
    /\ \A i \in 1..(Len(batches) - 1) :
          batches[i].batch_end < batches[i + 1].batch_start
    /\ \A i \in 1..Len(batches) : batches[i].result # "none"
    /\ queries # <<>> =>
          /\ pc \in {"try", "finally"}
          /\ \A q \in 1..Len(queries) : queries[q] = <<batch_start, batch_end>>
          /\ \A i \in 1..Len(batches) : batches[i].batch_end < batch_start
    /\ pc = "try" => batch_result = "none"
    /\ pc \in {"try", "finally", "exit", "returned"} =>
          all_events = EventsOfOkBatches(Len(batches)) \o
                       (IF batch_result = "ok" THEN batch_events ELSE <<>>)
    /\ batch_result = "ok" =>
          LET events == get_all_entries(batch_start, batch_end)
          IN  /\ Len(batch_events) = Len(events)
              /\ \A k \in 1..Len(events) :
                    /\ batch_events[k].id = events[k].id
                    /\ batch_events[k].block_number = events[k].blockNumber
              /\ block_lookups = BlocksOf(events, Len(events))
    /\ pc = "returned" =>
          /\ returned = EventsOfOkBatches(Len(batches))
          /\ \A k \in 1..(Len(returned) - 1) :
                returned[k].block_number < returned[k + 1].block_number

\* C12 witness: a run returned the events of two successful sub-ranges, the
\* earlier sub-range's event first.
C12_Witness ==
    /\ pc = "returned"
    /\ Len(batches) >= 2
    /\ batches[1].result = "ok"
    /\ batches[2].result = "ok"
    /\ Len(returned) >= 2
    /\ returned[1].block_number <= batches[1].batch_end
    /\ returned[2].block_number >= batches[2].batch_start

\* C13: between any two consecutive sub-ranges fetch_events waits exactly
\* once, for the fixed delay retry_delay, whether the earlier sub-range
\* succeeded or was skipped: one wait has been made per completed sub-range
\* when the next one begins.
C13_OneDelayBetweenSubRanges ==
    /\ Len(rate_sleeps) = Len(batches)
    /\ \A i \in 1..Len(rate_sleeps) : rate_sleeps[i] = retry_delay

\* C13 witness: the third sub-range begins after one skipped and one
\* successful sub-range, and two waits of retry_delay have been made.
C13_Witness ==
    /\ pc = "try"
    /\ queries = <<>>
    /\ Len(batches) = 2
    /\ batches[1].result = "exhausted"
    /\ batches[2].result = "ok"
    /\ rate_sleeps = <<retry_delay, retry_delay>>

\* the sub-ranges completed so far, as <<batch_start, batch_end>> pairs
CompletedRanges ==
    [i \in 1..Len(batches) |-> <<batches[i].batch_start, batches[i].batch_end>>]

\* the number of blocks of a sub-range
RangeLength(r) == r[2] - r[1] + 1

\* the smallest integer that is at least a / b, for b > 0
CeilDiv(a, b) == (a + b - 1) \div b

\* C21: every sub-range fetch_events produces has exactly batch_size blocks,
\* except possibly the last, which has between 1 and batch_size blocks; the
\* sub-ranges are ceil((end_block - start_block + 1) / batch_size) in number
\* (which is also the total_batches of the progress bar); the sub-ranges
\* completed at any time are the first ones of that list, all of them when
\* the loop is over; and the range [1000, 2999] with batch_size 1000 gives
\* exactly the two sub-ranges [1000, 1999] and [2000, 2999].
C21_SubRangeLengths ==
    /\ start_block <= end_block =>
          LET ranges == sub_ranges(start_block, end_block, batch_size)
              n == Len(ranges)
          IN  /\ n = CeilDiv(end_block - start_block + 1, batch_size)
              /\ n = total_batches(start_block, end_block, batch_size)
              /\ \A i \in 1..(n - 1) : RangeLength(ranges[i]) = batch_size
              /\ 1 <= RangeLength(ranges[n])
              /\ RangeLength(ranges[n]) <= batch_size
              /\ Len(batches) <= n
              /\ CompletedRanges = SubSeq(ranges, 1, Len(batches))
              /\ pc \in {"try", "finally"} =>
                    /\ Len(batches) < n
                    /\ <<batch_start, batch_end>> = ranges[Len(batches) + 1]
              /\ pc \in {"exit", "returned"} => Len(batches) = n
    /\ sub_ranges(1000, 2999, 1000) = <<<<1000, 1999>>, <<2000, 2999>>>>

\* C21 witness: a finished run over a range of twice batch_size blocks, with
\* batch_size above 1: two sub-ranges of batch_size blocks each.
C21_Witness ==
    /\ pc = "returned"
    /\ batch_size > 1
    /\ end_block - start_block + 1 = 2 * batch_size
    /\ Len(batches) = 2
    /\ RangeLength(CompletedRanges[1]) = batch_size
    /\ RangeLength(CompletedRanges[2]) = batch_size

\* the events gathered that lie in the sub-range being fetched
GatheredOfCurrent ==
    {k \in 1..Len(all_events) :
        /\ batch_start <= all_events[k].block_number
        /\ all_events[k].block_number <= batch_end}

\* C23: each sub-range contributes to the events gathered (and so to the
\* events returned) either all the events of one successful attempt or
\* nothing: as long as no attempt at the current sub-range has succeeded no
\* event of it has been gathered, whatever its failed attempts had built;
\* after the successful attempt exactly the events of that attempt have been
\* added, once; and no log occurs twice among the events gathered.
C23_AllOrNothingPerSubRange ==
    /\ all_events = EventsOfOkBatches(Len(batches)) \o
                    (IF batch_result = "ok" THEN batch_events ELSE <<>>)
    /\ (pc \in {"try", "finally"} /\ batch_result # "ok") =>
          GatheredOfCurrent = {}
    /\ batch_result = "ok" =>
          /\ batch_events =
                process_all(get_all_entries(batch_start, batch_end))
          /\ Cardinality(GatheredOfCurrent) = Len(batch_events)
    /\ \A i \in 1..Len(all_events) : \A j \in 1..Len(all_events) :
          all_events[i].id = all_events[j].id => i = j
    /\ pc = "returned" => returned = all_events

\* C23 witness: an attempt at a sub-range of two logs built the first event
\* and then failed; the retry succeeded and the sub-range's two events have
\* been gathered once each.
C23_Witness ==
    /\ pc = "finally"
    /\ batch_result = "ok"
    /\ retry_count >= 1
    /\ discarded # <<>>
    /\ Len(batch_events) = 2
    /\ Cardinality(GatheredOfCurrent) = 2

\* a sub-range that ended with an error that is not transient is skipped and
\* fetch_events goes on: nothing of it is gathered, fetch_events does not
\* raise, and unless it was the last sub-range the next one is begun
OtherErrorSkipped ==
    /\ batch_result = "error" =>
          /\ pc = "finally"
          /\ GatheredOfCurrent = {}
    /\ pc = "raised" => batches = <<>>
    /\ \A i \in 1..Len(batches) :
          batches[i].result = "error" =>
             /\ \A k \in 1..Len(all_events) :
                   ~(/\ batches[i].batch_start <= all_events[k].block_number
                     /\ all_events[k].block_number <= batches[i].batch_end)
             /\ batches[i].batch_end < end_block =>
                   \/ i < Len(batches)
                   \/ pc \in {"try", "finally"} /\
                      batch_start = batches[i].batch_end + 1

\* C24 as claimed: only transient errors are retried; a sub-range whose
\* fetch raises any other kind of error is attempted exactly once, with no
\* backoff wait, is skipped, and fetch_events proceeds to the next
\* sub-range.
C24_OtherErrorAttemptedOnce ==
    /\ OtherErrorSkipped
    /\ batch_result = "error" =>
          /\ Len(queries) = 1
          /\ backoff_sleeps = <<>>

\* C24 as amended: only transient errors are retried; an attempt that
\* raises any other kind of error is the sub-range's last: no backoff wait
\* and no further attempt follows it (the attempts and waits made are those
\* of the transient errors before it, so a sub-range whose first attempt
\* raises such an error is attempted exactly once with no backoff wait), the
\* sub-range is skipped and fetch_events proceeds to the next sub-range.
C24_OtherErrorNotRetried ==
    /\ OtherErrorSkipped
    /\ batch_result = "error" =>
          /\ Len(queries) = retry_count + 1
          /\ Len(backoff_sleeps) = retry_count
          /\ \A k \in 1..Len(backoff_sleeps) :
                backoff_sleeps[k] = backoff_delay(k - 1)
          /\ retry_count = 0 =>
                /\ Len(queries) = 1
                /\ backoff_sleeps = <<>>

\* C24 witness: the first attempt at a sub-range of two logs raised a
\* transient error, the second one, after the backoff wait, an error of
\* another kind; the sub-range ends there, with two attempts and one wait.
C24_Witness ==
    /\ pc = "finally"
    /\ batch_result = "error"
    /\ retry_count = 1
    /\ Len(queries) = 2
    /\ backoff_sleeps = <<retry_delay>>
    /\ Cardinality(block_lookups) = 2

\* the most log-filter queries a call of fetch_events may issue
QueryBudget ==
    IF start_block > end_block THEN 0
    ELSE CeilDiv(end_block - start_block + 1, batch_size) * (max_retries + 1)

\* every sub-range is attempted at least once and at most max_retries + 1
\* times, and the log-filter queries issued stay within the budget
WithinQueryBudget ==
    /\ Len(queries) <= max_retries + 1
    /\ pc = "finally" => Len(queries) >= 1
    /\ log_queries >= Len(batches) + (IF pc = "finally" THEN 1 ELSE 0)
    /\ log_queries <= Len(batches) * (max_retries + 1) + Len(queries)
    /\ log_queries <= QueryBudget
    /\ pc = "returned" =>
          Len(batches) = CeilDiv(end_block - start_block + 1, batch_size)

\* C25: fetch_events over a finite range always ends (it returns, or raises
\* before the first sub-range), whatever the node answers; every sub-range
\* is attempted at least once and at most max_retries + 1 times, so that at
\* most ceil((end_block - start_block + 1) / batch_size) * (max_retries + 1)
\* log-filter queries are issued.
C25_TerminatesWithinBudget ==
    /\ []WithinQueryBudget
    /\ <>(pc \in {"returned", "raised"})

\* C25 witness: a run over several sub-ranges returned after every attempt
\* at every sub-range had failed with a transient error: the whole budget of
\* queries was used.
C25_Witness ==
    /\ pc = "returned"
    /\ Len(batches) >= 2
    /\ \A i \in 1..Len(batches) : batches[i].result = "exhausted"
    /\ log_queries = QueryBudget

(***************************************************************************)
(* IEEE 754 doubles.  Python's float is a double: len(a) / len(b), * and + *)
(* each give the double nearest to the exact result, ties to the even      *)
(* mantissa.  A double above zero is m * 2^e with 2^52 <= m < 2^53; m does *)
(* not fit TLC's 32-bit integers and is kept as its limbs in base Limb,    *)
(* least significant limb first.                                           *)
(***************************************************************************)
LimbBits == 14
Limb == 2 ^ LimbBits
MantissaBits == 53

\* a natural number as limbs, without leading zero limbs
RECURSIVE BigNorm(_)
BigNorm(a) ==
    IF a = <<>> THEN a
    ELSE IF a[Len(a)] = 0 THEN BigNorm(SubSeq(a, 1, Len(a) - 1))
    ELSE a

RECURSIVE BigOf(_)
BigOf(n) == IF n = 0 THEN <<>> ELSE <<n % Limb>> \o BigOf(n \div Limb)

RECURSIVE BigAddCarry(_, _, _)
BigAddCarry(a, b, carry) ==
    IF a = <<>> /\ b = <<>> THEN BigOf(carry)
    ELSE LET x == IF a = <<>> THEN 0 ELSE Head(a)
             y == IF b = <<>> THEN 0 ELSE Head(b)
             sum == x + y + carry
         IN  <<sum % Limb>> \o
             BigAddCarry(IF a = <<>> THEN a ELSE Tail(a),
                         IF b = <<>> THEN b ELSE Tail(b), sum \div Limb)

BigAdd(a, b) == BigAddCarry(a, b, 0)

RECURSIVE BigTimesSmallCarry(_, _, _)
BigTimesSmallCarry(a, k, carry) ==
    IF a = <<>> THEN BigOf(carry)
    ELSE LET product == Head(a) * k + carry
         IN  <<product % Limb>> \o
             BigTimesSmallCarry(Tail(a), k, product \div Limb)

\* a * k for 0 <= k < Limb
BigTimesSmall(a, k) == IF k = 0 THEN <<>> ELSE BigTimesSmallCarry(a, k, 0)

RECURSIVE BigTimes(_, _)
BigTimes(a, b) ==
    IF a = <<>> \/ b = <<>> THEN <<>>
    ELSE BigAdd(BigTimesSmall(a, Head(b)),
                IF Tail(b) = <<>> THEN <<>> ELSE <<0>> \o BigTimes(a, Tail(b)))

\* a divided by d, 0 < d < Limb: quotient (not normalised) and remainder
RECURSIVE BigDivSmall(_, _)
BigDivSmall(a, d) ==
    IF a = <<>> THEN [q |-> <<>>, r |-> 0]
    ELSE LET high == BigDivSmall(Tail(a), d)
             cur == high.r * Limb + Head(a)
         IN  [q |-> <<cur \div d>> \o high.q, r |-> cur % d]

\* a * 2^bits
BigShiftLeft(a, bits) ==
    IF a = <<>> THEN <<>>
    ELSE [i \in 1..(bits \div LimbBits) |-> 0] \o
         BigTimesSmall(a, 2 ^ (bits % LimbBits))

\* a \div 2^bits
BigShiftRight(a, bits) ==
    LET limbs == bits \div LimbBits
    IN  IF Len(a) <= limbs THEN <<>>
        ELSE BigNorm(BigDivSmall(SubSeq(a, limbs + 1, Len(a)),
                                 2 ^ (bits % LimbBits)).q)

\* a % 2^bits
BigLowBits(a, bits) ==
    LET limbs == bits \div LimbBits
    IN  IF Len(a) <= limbs THEN a
        ELSE BigNorm(SubSeq(a, 1, limbs) \o
                     <<a[limbs + 1] % (2 ^ (bits % LimbBits))>>)

RECURSIVE BitLength(_)
BitLength(n) == IF n = 0 THEN 0 ELSE 1 + BitLength(n \div 2)

BigBitLength(a) ==
    IF a = <<>> THEN 0 ELSE (Len(a) - 1) * LimbBits + BitLength(a[Len(a)])

RECURSIVE BigLess(_, _)
BigLess(a, b) ==
    IF Len(a) # Len(b) THEN Len(a) < Len(b)
    ELSE IF a = <<>> THEN FALSE
    ELSE IF a[Len(a)] # b[Len(b)] THEN a[Len(a)] < b[Len(b)]
    ELSE BigLess(SubSeq(a, 1, Len(a) - 1), SubSeq(b, 1, Len(b) - 1))

BigIsOdd(a) == a # <<>> /\ a[1] % 2 = 1

\* 0.0
Zero == [m |-> <<>>, e |-> 0]

\* m * 2^e with m of MantissaBits bits or one more
Renormalised(m, e) ==
    IF BigBitLength(m) > MantissaBits
    THEN [m |-> BigShiftRight(m, 1), e |-> e + 1]
    ELSE [m |-> m, e |-> e]

\* q * 2^e rounded up or down for what was cut off q: rest, against half a
\* unit of q; ties to even
RoundedAt(q, rest, half, e, sticky) ==
    Renormalised(IF \/ BigLess(half, rest)
                    \/ rest = half /\ (sticky \/ BigIsOdd(q))
                 THEN BigAdd(q, <<1>>)
                 ELSE q,
                 e)

\* n * 2^e, n of length bits, as a double
RoundedFrom(n, e, sticky, length) ==
    IF length <= MantissaBits
    THEN [m |-> BigShiftLeft(n, MantissaBits - length),
          e |-> e - (MantissaBits - length)]
    ELSE RoundedAt(BigShiftRight(n, length - MantissaBits),
                   BigLowBits(n, length - MantissaBits),
                   BigShiftLeft(<<1>>, length - MantissaBits - 1),
                   e + length - MantissaBits, sticky)

\* the double nearest to n * 2^e (to a number just above it when sticky),
\* ties to even
RoundToDouble(n, e, sticky) ==
    IF n = <<>> THEN Zero ELSE RoundedFrom(n, e, sticky, BigBitLength(n))

\* the double nearest to a quotient with remainder, scaled by 2^e
RoundedQuotient(scaled, e) ==
    RoundToDouble(BigNorm(scaled.q), e, scaled.r # 0)

\* n / d for integers n >= 0, d > 0 (also the value of a decimal literal
\* such as 0.6, the double nearest to 6/10)
Double(n, d) ==
    RoundedQuotient(BigDivSmall(BigShiftLeft(BigOf(n), 5 * LimbBits), d),
                    0 - 5 * LimbBits)

One == Double(1, 1)

\* x + y
Plus(x, y) ==
    IF x = Zero THEN y
    ELSE IF y = Zero THEN x
    ELSE LET e == IF x.e <= y.e THEN x.e ELSE y.e
         IN  RoundToDouble(BigAdd(BigShiftLeft(x.m, x.e - e),
                                  BigShiftLeft(y.m, y.e - e)), e, FALSE)

\* x * y
Times(x, y) ==
    IF x = Zero \/ y = Zero THEN Zero
    ELSE RoundToDouble(BigTimes(x.m, y.m), x.e + y.e, FALSE)

\* x < y
Less(x, y) ==
    IF y = Zero THEN FALSE
    ELSE IF x = Zero THEN TRUE
    ELSE IF x.e # y.e THEN x.e < y.e
    ELSE BigLess(x.m, y.m)

\* min(x, y)
DoubleMin(x, y) == IF Less(y, x) THEN y ELSE x

\* a call's outcome: the value returned, or the exception that left it
Return(v) == [exc |-> "none", value |-> v]
Raise(e) == [exc |-> e, value |-> Zero]

(***************************************************************************)
(* OracleIdentifier.calculate_confidence (oracle/identifiers.py 82-107)    *)
(***************************************************************************)
calculate_confidence_gate_inverted(matched_functions, matched_storage, pattern, factory_match) ==
    IF Len(pattern.function_patterns) = 0
    THEN Raise("ZeroDivisionError")                          \* line 91
    ELSE IF Len(pattern.storage_patterns) = 0
    THEN Raise("ZeroDivisionError")                          \* line 95
    ELSE
    LET func_ratio == Double(Len(matched_functions), Len(pattern.function_patterns))
        func_confidence == Times(func_ratio, Double(6, 10))
        storage_ratio == Double(Len(matched_storage), Len(pattern.storage_patterns))
        storage_confidence == Times(storage_ratio, Double(3, 10))
        factory_confidence == IF factory_match THEN Double(1, 10) ELSE Zero
        total_confidence ==
            Plus(Plus(func_confidence, storage_confidence), factory_confidence)
        gated == IF Len(matched_functions) > pattern.required_function_matches
                 THEN Zero ELSE total_confidence
    IN  Return(DoubleMin(One, gated))

calculate_confidence_weights_swapped(matched_functions, matched_storage, pattern, factory_match) ==
    IF Len(pattern.function_patterns) = 0
    THEN Raise("ZeroDivisionError")                          \* line 91
    ELSE IF Len(pattern.storage_patterns) = 0
    THEN Raise("ZeroDivisionError")                          \* line 95
    ELSE
    LET func_ratio == Double(Len(matched_functions), Len(pattern.function_patterns))
        func_confidence == Times(func_ratio, Double(3, 10))
        storage_ratio == Double(Len(matched_storage), Len(pattern.storage_patterns))
        storage_confidence == Times(storage_ratio, Double(6, 10))
        factory_confidence == IF factory_match THEN Double(1, 10) ELSE Zero
        total_confidence ==
            Plus(Plus(func_confidence, storage_confidence), factory_confidence)
        gated == IF Len(matched_functions) < pattern.required_function_matches
                 THEN Zero ELSE total_confidence
    IN  Return(DoubleMin(One, gated))

calculate_confidence(matched_functions, matched_storage, pattern, factory_match) ==
    IF Len(pattern.function_patterns) = 0
    THEN Raise("ZeroDivisionError")                          \* line 91
    ELSE IF Len(pattern.storage_patterns) = 0
    THEN Raise("ZeroDivisionError")                          \* line 95
    ELSE
    LET func_ratio == Double(Len(matched_functions), Len(pattern.function_patterns))
        func_confidence == Times(func_ratio, Double(6, 10))
        storage_ratio == Double(Len(matched_storage), Len(pattern.storage_patterns))
        storage_confidence == Times(storage_ratio, Double(3, 10))
        factory_confidence == IF factory_match THEN Double(1, 10) ELSE Zero
        total_confidence ==
            Plus(Plus(func_confidence, storage_confidence), factory_confidence)
        gated == IF Len(matched_functions) < pattern.required_function_matches
                 THEN Zero ELSE total_confidence
    IN  Return(DoubleMin(One, gated))

(***************************************************************************)
(* The scorer on its own: any pattern, any matched lists drawn from it.    *)
(***************************************************************************)
HexDigits == <<"0", "1", "2", "3", "4", "5", "6", "7",
               "8", "9", "a", "b", "c", "d", "e", "f">>

\* the i-th function and storage fragment of a scorer pattern
ScorerFunction(i) == <<"6", "3", HexDigits[i + 1]>>
ScorerStorage(i) == <<"5", "4", HexDigits[i + 1]>>

ScorerPattern(F, S, req) ==
    [function_patterns |-> [i \in 1..F |-> ScorerFunction(i)],
     storage_patterns |-> [i \in 1..S |-> ScorerStorage(i)],
     required_function_matches |-> req,
     factory_addresses |-> <<>>]

FetchIdle ==
    /\ log_blocks = {}
    /\ start_block = 0
    /\ end_block = 0
    /\ batch_size = 1
    /\ end_block_given = FALSE
    /\ pc = "idle"
    /\ batch_start = 0
    /\ all_events = <<>>
    /\ retry_count = 0
    /\ batch_result = "none"
    /\ batch_events = <<>>
    /\ returned = <<>>
    /\ raised_exc = "none"
    /\ block_number_queries = 0
    /\ queries = <<>>
    /\ log_queries = 0
    /\ block_lookups = {}
    /\ discarded = <<>>
    /\ backoff_sleeps = <<>>
    /\ batches = <<>>
    /\ rate_sleeps = <<>>

InitScorer ==
    /\ FetchIdle
    /\ LookupIdle
    /\ IdentifyIdle
    /\ RunIdle
    /\ \E F \in 0..MaxF, S \in 0..MaxS, req \in 1..MaxReq :
          /\ sc_pattern = ScorerPattern(F, S, req)
          /\ \E nf \in 0..F, ns \in 0..S :
                /\ sc_matched_functions = SubSeq(sc_pattern.function_patterns, 1, nf)
                /\ sc_matched_storage = SubSeq(sc_pattern.storage_patterns, 1, ns)
    /\ sc_factory_match \in BOOLEAN
    /\ sc_pc = "call"
    /\ sc_result = Return(Zero)

CalculateConfidence ==
    /\ sc_pc = "call"
    /\ sc_result' = calculate_confidence(sc_matched_functions, sc_matched_storage,
                                         sc_pattern, sc_factory_match)
    /\ sc_pc' = "done"
    /\ UNCHANGED <<sc_matched_functions, sc_matched_storage, sc_pattern,
                   sc_factory_match>>
    /\ UNCHANGED notScorer

NextScorer == CalculateConfidence

SpecScorer == InitScorer /\ [][NextScorer]_vars

(***************************************************************************)
(* Properties of calculate_confidence (specification SpecScorer).          *)
(***************************************************************************)
sc_F == Len(sc_pattern.function_patterns)
sc_S == Len(sc_pattern.storage_patterns)

\* C7: the scorer returns exactly 0.0 whenever fewer functions matched than
\* the pattern's required_function_matches, for every number of matched
\* storage fragments and every factory_match.
C7_GateForcesZero ==
    (sc_pc = "done"
       /\ Len(sc_matched_functions) < sc_pattern.required_function_matches)
    => sc_result = Return(Zero)

\* C8: for every pattern and every input with 0 <= |matched_functions| <= F
\* and 0 <= |matched_storage| <= S the scorer's output lies in [0.0, 1.0].
C8_ConfidenceInUnitInterval ==
    sc_pc = "done" =>
        /\ sc_result.exc = "none"
        /\ ~Less(sc_result.value, Zero)
        /\ ~Less(One, sc_result.value)

\* the score when a pattern without function or storage fragments gives
\* that term no contribution
ScoreWithZeroTerms ==
    LET func == IF sc_F = 0 THEN Zero
                ELSE Times(Double(Len(sc_matched_functions), sc_F), Double(6, 10))
        stor == IF sc_S = 0 THEN Zero
                ELSE Times(Double(Len(sc_matched_storage), sc_S), Double(3, 10))
        fact == IF sc_factory_match THEN Double(1, 10) ELSE Zero
    IN  IF Len(sc_matched_functions) < sc_pattern.required_function_matches
        THEN Zero
        ELSE DoubleMin(One, Plus(Plus(func, stor), fact))

\* C10: the scorer never divides by zero: for a pattern with F = 0 function
\* fragments or S = 0 storage fragments it returns the score in which that
\* term contributes 0, instead of failing.
C10_NoDivisionByZero ==
    (sc_pc = "done" /\ (sc_F = 0 \/ sc_S = 0))
    => sc_result = Return(ScoreWithZeroTerms)

\* the first n function / storage fragments of the pattern of the call
FirstFunctions(n) == SubSeq(sc_pattern.function_patterns, 1, n)
FirstStorage(n) == SubSeq(sc_pattern.storage_patterns, 1, n)

\* the call with nf matched functions and ns matched storage fragments
\* instead, the pattern and factory_match being those of the call made
ScoreOf(nf, ns) ==
    calculate_confidence(FirstFunctions(nf), FirstStorage(ns), sc_pattern,
                         sc_factory_match)

\* C18: the scorer is monotonic non-decreasing: for the pattern and the
\* factory_match of the call, a call with more matched functions (and the
\* same matched storage) or with more matched storage fragments (and the
\* same matched functions) ends as this one does and never returns a lower
\* confidence.
C18_Monotonic ==
    sc_pc = "done" =>
        /\ \A nf \in Len(sc_matched_functions)..sc_F :
              LET more == ScoreOf(nf, Len(sc_matched_storage))
              IN  /\ more.exc = sc_result.exc
                  /\ ~Less(more.value, sc_result.value)
        /\ \A ns \in Len(sc_matched_storage)..sc_S :
              LET more == ScoreOf(Len(sc_matched_functions), ns)
              IN  /\ more.exc = sc_result.exc
                  /\ ~Less(more.value, sc_result.value)

\* C18 witness: a call above the gate that returned a confidence above 0 and
\* below what one more matched function and one more matched storage
\* fragment each give.
C18_Witness ==
    /\ sc_pc = "done"
    /\ sc_result.exc = "none"
    /\ Less(Zero, sc_result.value)
    /\ Len(sc_matched_functions) < sc_F
    /\ Len(sc_matched_storage) < sc_S
    /\ Less(sc_result.value,
            ScoreOf(Len(sc_matched_functions) + 1, Len(sc_matched_storage)).value)
    /\ Less(sc_result.value,
            ScoreOf(Len(sc_matched_functions), Len(sc_matched_storage) + 1).value)

\* the gate passed in a call whose pattern has function and storage fragments
GatePassed ==
    /\ sc_pc = "done"
    /\ sc_F > 0
    /\ sc_S > 0
    /\ Len(sc_matched_functions) >= sc_pattern.required_function_matches

\* the scenario: F = 5, S = 3, required_function_matches = 3, 3 matched
\* functions, 1 matched storage fragment, no factory match
Scenario ==
    /\ sc_F = 5
    /\ sc_S = 3
    /\ sc_pattern.required_function_matches = 3
    /\ Len(sc_matched_functions) = 3
    /\ Len(sc_matched_storage) = 1
    /\ ~sc_factory_match

\* min(1.0, 0.6*|matched_functions|/F + 0.3*|matched_storage|/S + 0.1 or 0)
\* as a number: the double nearest to the exact value of the expression,
\* (6*nf*S + 3*ns*F + F*S or 0) / (10*F*S)
ExactScore ==
    DoubleMin(One,
        Double(6 * Len(sc_matched_functions) * sc_S
                   + 3 * Len(sc_matched_storage) * sc_F
                   + (IF sc_factory_match THEN sc_F * sc_S ELSE 0),
               10 * sc_F * sc_S))

\* the double after x > 0
NextUp(x) ==
    LET m == BigAdd(x.m, <<1>>)
    IN  IF BigBitLength(m) > MantissaBits
        THEN [m |-> BigShiftRight(m, 1), e |-> x.e + 1]
        ELSE [m |-> m, e |-> x.e]

\* x and y are at most two doubles apart
WithinTwoUlps(x, y) ==
    \/ x = y
    \/ x # Zero /\ (NextUp(x) = y \/ NextUp(NextUp(x)) = y)
    \/ y # Zero /\ (NextUp(y) = x \/ NextUp(NextUp(y)) = x)

\* C19 as claimed: when the gate passes the scorer returns
\* min(1.0, 0.6*|matched_functions|/F + 0.3*|matched_storage|/S + (0.1 if
\* factory_match else 0)); in particular for F = 5, S = 3,
\* required_function_matches = 3, 3 matched functions, 1 matched storage
\* fragment and no factory match the confidence is 0.46.
C19_ScoreIsExactFormula ==
    GatePassed =>
        /\ sc_result = Return(ExactScore)
        /\ Scenario => sc_result = Return(Double(46, 100))

\* C19 as amended: when the gate passes the scorer returns
\* min(1.0, (|matched_functions|/F)*0.6 + (|matched_storage|/S)*0.3 + (0.1
\* if factory_match else 0.0)) as double arithmetic evaluates it, every
\* operation rounded; the result is within two units in the last place of
\* the exact value, and for F = 5, S = 3, required_function_matches = 3, 3
\* matched functions, 1 matched storage fragment and no factory match it is
\* 0.45999999999999996, the double just below 0.46.
C19_ScoreIsRoundedFormula ==
    GatePassed =>
        /\ sc_result =
              Return(DoubleMin(One,
                  Plus(Plus(Times(Double(Len(sc_matched_functions), sc_F),
                                  Double(6, 10)),
                            Times(Double(Len(sc_matched_storage), sc_S),
                                  Double(3, 10))),
                       IF sc_factory_match THEN Double(1, 10) ELSE Zero)))
        /\ WithinTwoUlps(sc_result.value, ExactScore)
        /\ Scenario => NextUp(sc_result.value) = Double(46, 100)

\* C19 witness: the scorer was called on the scenario and returned the double
\* just below 0.46.
C19_Witness ==
    /\ GatePassed
    /\ Scenario
    /\ sc_result.exc = "none"
    /\ sc_result.value # Double(46, 100)
    /\ NextUp(sc_result.value) = Double(46, 100)

(***************************************************************************)
(* The signature catalog (oracle/patterns.py).  A fragment is the sequence *)
(* of its characters; factory_addresses = None is the empty list (both are *)
(* falsy at identifiers.py line 66).                                       *)
(***************************************************************************)
\* patterns.py line 5
CHAINLINK_PATTERNS ==
    [function_patterns |-> <<
        <<"6", "3", "f", "e", "a", "f", "9", "6", "8", "c">>,
        <<"6", "3", "5", "0", "d", "2", "5", "b", "c", "d">>,
        <<"6", "3", "6", "6", "8", "a", "0", "f", "0", "2">>,
        <<"6", "3", "9", "a", "6", "f", "c", "8", "f", "5">>,
        <<"6", "3", "3", "1", "3", "c", "e", "5", "6", "7">>,
        <<"6", "3", "8", "a", "c", "2", "8", "d">>,
        <<"6", "3", "2", "f", "b", "5", "c", "8", "f">>
     >>,
     storage_patterns |-> <<
        <<"5", "4", "r", "o", "u", "n", "d", "I", "d">>,
        <<"5", "5", "a", "n", "s", "w", "e", "r", "s">>,
        <<"5", "4", "t", "i", "m", "e", "s", "t", "a", "m", "p">>
     >>,
     required_function_matches |-> 3,
     factory_addresses |-> <<
        "0x47Fb2585D2C56Fe188D0E6ec628a38b74fCeeeDf",
        "0xf0c1f6c01dfaced1e9c6fcfbd1fd1f873bbf09ce"
     >>]

\* patterns.py line 36
TELLOR_PATTERNS_no_storage ==
    [function_patterns |-> <<
        <<"6", "3", "a", "2", "2", "c", "b", "4", "6", "5">>,
        <<"6", "3", "7", "5", "8", "4", "a", "1", "5", "7">>,
        <<"6", "3", "2", "f", "1", "b", "e", "0", "c">>,
        <<"6", "3", "8", "4", "2", "4", "8", "3", "d", "2">>,
        <<"6", "3", "5", "c", "1", "f", "0", "a", "0">>
     >>,
     storage_patterns |-> <<>>,
     required_function_matches |-> 2,
     factory_addresses |-> <<>>]
TELLOR_PATTERNS_hex_storage ==
    [function_patterns |-> <<
        <<"6", "3", "a", "2", "2", "c", "b", "4", "6", "5">>,
        <<"6", "3", "7", "5", "8", "4", "a", "1", "5", "7">>,
        <<"6", "3", "2", "f", "1", "b", "e", "0", "c">>,
        <<"6", "3", "8", "4", "2", "4", "8", "3", "d", "2">>,
        <<"6", "3", "5", "c", "1", "f", "0", "a", "0">>
     >>,
     storage_patterns |-> <<
        <<"5", "4">>,
        <<"5", "5">>,
        <<"5", "4", "5", "5">>
     >>,
     required_function_matches |-> 2,
     factory_addresses |-> <<>>]
TELLOR_PATTERNS ==
    [function_patterns |-> <<
        <<"6", "3", "a", "2", "2", "c", "b", "4", "6", "5">>,
        <<"6", "3", "7", "5", "8", "4", "a", "1", "5", "7">>,
        <<"6", "3", "2", "f", "1", "b", "e", "0", "c">>,
        <<"6", "3", "8", "4", "2", "4", "8", "3", "d", "2">>,
        <<"6", "3", "5", "c", "1", "f", "0", "a", "0">>
     >>,
     storage_patterns |-> <<
        <<"5", "4", "d", "i", "s", "p", "u", "t", "e", "I", "d">>,
        <<"5", "5", "s", "t", "a", "k", "e", "A", "m", "o", "u", "n", "t">>,
        <<"5", "4", "r", "e", "p", "o", "r", "t", "e", "d", "V", "a", "l", "u", "e">>
     >>,
     required_function_matches |-> 2,
     factory_addresses |-> <<>>]

\* patterns.py line 59
UNISWAP_PATTERNS ==
    [function_patterns |-> <<
        <<"6", "3", "b", "7", "b", "e", "1", "8", "5", "0">>,
        <<"6", "3", "6", "d", "1", "5", "4", "e", "a", "5">>,
        <<"6", "3", "2", "5", "2", "c", "8", "c", "6", "c">>,
        <<"6", "3", "9", "a", "1", "9", "a", "5", "9", "3">>
     >>,
     storage_patterns |-> <<
        <<"5", "4", "p", "r", "i", "c", "e", "0">>,
        <<"5", "4", "p", "r", "i", "c", "e", "1">>,
        <<"5", "5", "c", "u", "m", "u", "l", "a", "t", "i", "v", "e">>
     >>,
     required_function_matches |-> 2,
     factory_addresses |-> <<>>]

\* patterns.py line 81
PYTH_PATTERNS ==
    [function_patterns |-> <<
        <<"6", "3", "d", "2", "4", "c", "e", "6", "0", "7">>,
        <<"6", "3", "f", "e", "8", "3", "4", "4", "8", "2">>,
        <<"6", "3", "3", "1", "3", "c", "e", "5", "6", "7">>,
        <<"6", "3", "6", "2", "8", "f", "7", "0", "7", "4">>
     >>,
     storage_patterns |-> <<
        <<"5", "4", "p", "r", "i", "c", "e", "I", "d">>,
        <<"5", "5", "c", "o", "n", "f", "i", "d", "e", "n", "c", "e">>,
        <<"5", "4", "e", "x", "p", "o">>
     >>,
     required_function_matches |-> 2,
     factory_addresses |-> <<>>]

\* patterns.py line 102
REDSTONE_PATTERNS ==
    [function_patterns |-> <<
        <<"6", "3", "d", "0", "f", "2", "e", "9", "1", "5">>,
        <<"6", "3", "c", "8", "e", "4", "d", "e", "0", "d">>,
        <<"6", "3", "4", "5", "5", "4", "e", "e", "0", "0">>
     >>,
     storage_patterns |-> <<
        <<"5", "4", "d", "a", "t", "a", "F", "e", "e", "d">>,
        <<"5", "5", "t", "i", "m", "e", "s", "t", "a", "m", "p">>,
        <<"5", "4", "s", "i", "g", "n", "a", "t", "u", "r", "e">>
     >>,
     required_function_matches |-> 2,
     factory_addresses |-> <<>>]

\* OracleIdentifier.__init__, lines 24-30: the dict, in insertion order
patterns ==
    << [oracle_type |-> "chainlink", pattern |-> CHAINLINK_PATTERNS],
       [oracle_type |-> "tellor", pattern |-> TELLOR_PATTERNS],
       [oracle_type |-> "uniswap", pattern |-> UNISWAP_PATTERNS],
       [oracle_type |-> "pyth", pattern |-> PYTH_PATTERNS],
       [oracle_type |-> "redstone", pattern |-> REDSTONE_PATTERNS] >>

UNKNOWN == "unknown"

\* OracleIdentificationResult (oracle/models.py); creation_match is never set
OracleIdentificationResult(oracle_type, address, confidence, matched_functions, matched_storage, factory_match, error) ==
    [oracle_type |-> oracle_type, address |-> address,
     confidence |-> confidence, matched_functions |-> matched_functions,
     matched_storage |-> matched_storage, creation_match |-> None,
     factory_match |-> factory_match, error |-> error]

(***************************************************************************)
(* The node's answers.                                                     *)
(***************************************************************************)
\* w3.eth.get_code(address): the code, or an exception
CodeAnswer(ok, code) == [ok |-> ok, code |-> code]
\* w3.eth.get_transaction_by_block(w3.eth.get_block_number(), 0): the
\* transaction (its 'from', a checksum address), or an exception
TxAnswer(ok, from) == [ok |-> ok, from |-> from]

(***************************************************************************)
(* OracleIdentifier (oracle/identifiers.py)                                *)
(***************************************************************************)

\* get_contract_code, lines 32-39
get_contract_code_unchecked(address, answer) ==
    IF answer.ok THEN Some(answer.code) ELSE None
get_contract_code(address, answer) ==
    IF answer.ok
    THEN (IF answer.code # <<>> THEN Some(answer.code) ELSE None)
    ELSE None

\* HexBytes.hex(): "0x" and two lower-case digits per byte
RECURSIVE HexOfBytes(_)
HexOfBytes(bytes) ==
    IF bytes = <<>> THEN <<>>
    ELSE <<HexDigits[(Head(bytes) \div 16) + 1], HexDigits[(Head(bytes) % 16) + 1]>>
         \o HexOfBytes(Tail(bytes))
hex(bytes) == <<"0", "x">> \o HexOfBytes(bytes)

\* the lower-case form of a hexadecimal digit
LowerHex(c) ==
    CASE c = "A" -> "a" [] c = "B" -> "b" [] c = "C" -> "c"
      [] c = "D" -> "d" [] c = "E" -> "e" [] c = "F" -> "f"
      [] OTHER -> c

IsHexDigit(c) == \E i \in 1..Len(HexDigits) : HexDigits[i] = LowerHex(c)

HexValue(c) == (CHOOSE i \in 1..Len(HexDigits) : HexDigits[i] = LowerHex(c)) - 1

\* the bytes of an even number of hexadecimal digits
RECURSIVE BytesOfHex(_)
BytesOfHex(digits) ==
    IF digits = <<>> THEN <<>>
    ELSE <<16 * HexValue(digits[1]) + HexValue(digits[2])>>
         \o BytesOfHex(SubSeq(digits, 3, Len(digits)))

\* Python's `needle in haystack` on strings
Contains(haystack, needle) ==
    \E i \in 1..(Len(haystack) - Len(needle) + 1) :
        SubSeq(haystack, i, i + Len(needle) - 1) = needle

\* analyze_code_patterns, lines 41-62
analyze_code_patterns(bytecode, pattern) ==
    LET bytecode_hex == hex(bytecode)
        matched_functions ==
            SelectSeq(pattern.function_patterns,
                      LAMBDA f : Contains(bytecode_hex, f))
        matched_storage ==
            SelectSeq(pattern.storage_patterns,
                      LAMBDA f : Contains(bytecode_hex, f))
    IN  <<matched_functions, matched_storage>>

\* check_factory_match, lines 64-80
check_factory_match_on_failure(address, pattern, answer) ==
    IF pattern.factory_addresses = <<>>
    THEN FALSE
    ELSE IF answer.ok
         THEN \E i \in 1..Len(pattern.factory_addresses) :
                 answer.from = pattern.factory_addresses[i]
         ELSE TRUE
check_factory_match(address, pattern, answer) ==
    IF pattern.factory_addresses = <<>>
    THEN FALSE
    ELSE IF answer.ok
         THEN \E i \in 1..Len(pattern.factory_addresses) :
                 answer.from = pattern.factory_addresses[i]
         ELSE FALSE                                   \* lines 77-80

\* line 148
is_better_or_equal(confidence, highest_confidence) ==
    ~Less(confidence, highest_confidence)
is_better(confidence, highest_confidence) ==
    Less(highest_confidence, confidence)

\* identify_oracle, lines 131-157: the loop over self.patterns from the i-th
\* entry on.  Gives the call's outcome (the value of best_match after the
\* loop, or the exception that left it) and, as an observation, what each
\* pattern evaluated so far was scored with.
RECURSIVE scan_patterns(_, _, _, _, _, _, _)

\* what the loop keeps of one pattern's evaluation
Scored(oracle_type, matched, factory_match, confidence) ==
    [oracle_type |-> oracle_type, matched_functions |-> matched[1],
     matched_storage |-> matched[2], factory_match |-> factory_match,
     confidence |-> confidence]

\* lines 148-157: the comparison of the i-th pattern's score with the best
\* score so far, then the rest of the loop
scan_compare(address, bytecode, tx_answer, i, best_match, highest_confidence, scored, entry) ==
    IF entry.confidence.exc # "none"
    THEN [exc |-> entry.confidence.exc, best_match |-> None,
          scored |-> Append(scored, entry)]
    ELSE IF is_better(entry.confidence.value, highest_confidence)
    THEN scan_patterns(address, bytecode, tx_answer, i + 1,
             Some(OracleIdentificationResult(entry.oracle_type, address,
                      entry.confidence.value, entry.matched_functions,
                      entry.matched_storage, Some(entry.factory_match),
                      None)),
             entry.confidence.value, Append(scored, entry))
    ELSE scan_patterns(address, bytecode, tx_answer, i + 1, best_match,
                       highest_confidence, Append(scored, entry))

\* lines 133-146: the matches and the score of the i-th pattern
scan_score(address, bytecode, tx_answer, i, best_match, highest_confidence, scored, matched, factory_match) ==
    scan_compare(address, bytecode, tx_answer, i, best_match,
                 highest_confidence, scored,
                 Scored(patterns[i].oracle_type, matched, factory_match,
                        calculate_confidence(matched[1], matched[2],
                            patterns[i].pattern, factory_match)))

scan_patterns(address, bytecode, tx_answer, i, best_match, highest_confidence, scored) ==
    IF i > Len(patterns)
    THEN [exc |-> "none", best_match |-> best_match, scored |-> scored]
    ELSE scan_score(address, bytecode, tx_answer, i, best_match,
                    highest_confidence, scored,
                    analyze_code_patterns(bytecode, patterns[i].pattern),
                    check_factory_match(address, patterns[i].pattern,
                                        tx_answer))

\* str(e) of the exceptions of this model
ErrorMessage(exc) ==
    IF exc = "ZeroDivisionError" THEN "division by zero" ELSE exc

\* lines 159-165: the best match, or UNKNOWN when the loop ended without one;
\* lines 167-176: UNKNOWN with the message of the exception that left it
identify_result(address, scan) ==
    IF scan.exc # "none"
    THEN [result |-> OracleIdentificationResult(UNKNOWN, address, Zero,
                         <<>>, <<>>, None, Some(ErrorMessage(scan.exc))),
          scored |-> scan.scored]
    ELSE IF scan.best_match # None
    THEN [result |-> scan.best_match[1], scored |-> scan.scored]
    ELSE [result |-> OracleIdentificationResult(UNKNOWN, address, Zero,
                         <<>>, <<>>, None, None),
          scored |-> scan.scored]

\* lines 116-128: no bytecode ends the call before the loop
identify_bytecode(address, bytecode, tx_answer) ==
    IF bytecode = None
    THEN [result |-> OracleIdentificationResult(UNKNOWN, address, Zero,
                         <<>>, <<>>, None, Some("No contract code found")),
          scored |-> <<>>]
    ELSE identify_result(address,
             scan_patterns(address, bytecode[1], tx_answer, 1, None, Zero,
                           <<>>))

\* identify_oracle, lines 109-176: the result returned and, as an
\* observation, the scores of the patterns evaluated on the way
identify_oracle(address, code_answer, tx_answer) ==
    identify_bytecode(address, get_contract_code(address, code_answer),
                      tx_answer)

(***************************************************************************)
(* The chain of specification SpecIdentify.                                *)
(***************************************************************************)
\* oracle addresses
Addresses == {"0x1111111111111111111111111111111111111111",
              "0x2222222222222222222222222222222222222222"}

\* senders a transaction can have, as web3 reports them (EIP-55 checksum
\* form): the two factory addresses of CHAINLINK_PATTERNS and another account
Senders == {"0x47Fb2585D2C56Fe188D0E6ec628a38b74fCeeeDf",
            "0xf0c1F6c01DfAced1E9C6fCfBd1fd1F873bbF09Ce",
            "0x000000000000000000000000000000000000dEaD"}

\* the sender of the creation transaction of each oracle address: the first
\* was deployed by a factory of CHAINLINK_PATTERNS, the second by another
\* account
Deployer(address) ==
    IF address = "0x1111111111111111111111111111111111111111"
    THEN "0x47Fb2585D2C56Fe188D0E6ec628a38b74fCeeeDf"
    ELSE "0x000000000000000000000000000000000000dEaD"

\* PUSH4 <selector> fragments a modelled contract can hold
Palette ==
    << <<99, 254, 175, 150, 140>>,   \* 63feaf968c latestRoundData (chainlink)
       <<99, 80, 210, 91, 205>>,     \* 6350d25bcd latestAnswer (chainlink)
       <<99, 49, 60, 229, 103>>,     \* 63313ce567 decimals (chainlink, pyth)
       <<99, 210, 76, 230, 7>>,      \* 63d24ce607 getPrice (pyth)
       <<99, 183, 190, 24, 80>>,     \* 63b7be1850 observe (uniswap)
       <<99, 109, 21, 78, 165>> >>   \* 636d154ea5 consult (uniswap)

\* the bytecode of a contract that holds the palette entries `chosen`, in
\* palette order from entry i on, each followed by EQ PUSH2 .. JUMPI
RECURSIVE DispatchTable(_, _)
DispatchTable(chosen, i) ==
    IF i > Len(Palette) THEN <<>>
    ELSE (IF i \in chosen THEN Palette[i] \o <<20, 97, 0, i, 87>> ELSE <<>>)
         \o DispatchTable(chosen, i + 1)

\* PUSH1 80 PUSH1 40 MSTORE, then the dispatch table
ContractCode(chosen) == <<96, 128, 96, 64, 82>> \o DispatchTable(chosen, 1)

\* the bytes whose hex() holds every fragment of the list: each fragment in
\* turn, one of an odd number of digits followed by a zero digit
RECURSIVE FragmentBytes(_)
FragmentBytes(fragments) ==
    IF fragments = <<>> THEN <<>>
    ELSE BytesOfHex(IF Len(Head(fragments)) % 2 = 0 THEN Head(fragments)
                    ELSE Head(fragments) \o <<"0">>)
         \o FragmentBytes(Tail(fragments))

\* a contract that holds every function selector of a catalog pattern, and
\* then SLOAD SSTORE (hex 54 55, the digits the storage fragments begin with)
FullContract(pattern) ==
    <<96, 128, 96, 64, 82>> \o FragmentBytes(pattern.function_patterns)
        \o <<84, 85>>

\* what an address can hold: nothing, or a contract
Bytecodes ==
    {<<>>} \cup
    {ContractCode(chosen) : chosen \in
        {c \in SUBSET (1..Len(Palette)) : Cardinality(c) <= MaxSelectors}} \cup
    {FullContract(patterns[i].pattern) : i \in 1..Len(patterns)}

InitIdentify ==
    /\ FetchIdle
    /\ LookupIdle
    /\ ScorerIdle
    /\ RunIdle
    /\ id_address \in Addresses
    /\ id_code \in Bytecodes
    /\ head_sender \in Senders
    /\ id_first = None
    /\ id_second = None

\* one call of identify_oracle(id_address); the node answers or fails
\* a call of identify_oracle as observed: what the node answered, the result
\* returned and the scores on the way
CallRecord(code_answer, tx_answer, out) ==
    [code_answer |-> code_answer, tx_answer |-> tx_answer,
     result |-> out.result, scored |-> out.scored]

CallWith(address, code_answer, tx_answer) ==
    CallRecord(code_answer, tx_answer,
               identify_oracle(address, code_answer, tx_answer))

Call(code_ok, tx_ok) ==
    CallWith(id_address,
             IF code_ok THEN CodeAnswer(TRUE, id_code)
             ELSE CodeAnswer(FALSE, <<>>),
             IF tx_ok THEN TxAnswer(TRUE, head_sender)
             ELSE TxAnswer(FALSE, ""))

IdentifyOracle ==
    /\ id_second = None
    /\ \E code_ok \in BOOLEAN, tx_ok \in BOOLEAN :
          IF id_first = None
          THEN /\ id_first' = Some(Call(code_ok, tx_ok))
               /\ UNCHANGED id_second
          ELSE /\ id_second' = Some(Call(code_ok, tx_ok))
               /\ UNCHANGED id_first
    /\ UNCHANGED <<id_address, id_code, head_sender>>
    /\ UNCHANGED notIdentify

\* a block is mined: the latest block's first transaction is another one
MineBlock ==
    /\ \E s \in Senders : head_sender' = s
    /\ UNCHANGED <<id_address, id_code, id_first, id_second>>
    /\ UNCHANGED notIdentify

NextIdentify ==
    \/ IdentifyOracle
    \/ MineBlock

SpecIdentify == InitIdentify /\ [][NextIdentify]_vars

(***************************************************************************)
(* Properties of identify_oracle (specification SpecIdentify).             *)
(***************************************************************************)
\* the calls made so far
CallsMade ==
    (IF id_first = None THEN {} ELSE {id_first[1]}) \cup
    (IF id_second = None THEN {} ELSE {id_second[1]})

\* the node answered get_code with no code / with some code
SawNoCode(c) == c.code_answer.ok /\ c.code_answer.code = <<>>
SawCode(c) == c.code_answer.ok /\ c.code_answer.code # <<>>

C6_FirstMaximumWins ==
    \A c \in CallsMade :
        SawCode(c) =>
            /\ Len(c.scored) = Len(patterns)
            /\ \A i \in 1..Len(patterns) :
                  /\ c.scored[i].oracle_type = patterns[i].oracle_type
                  /\ c.scored[i].confidence.exc = "none"
            /\ LET conf == [i \in 1..Len(patterns) |-> c.scored[i].confidence.value]
                   maxima == {i \in 1..Len(patterns) :
                                 \A j \in 1..Len(patterns) : ~Less(conf[i], conf[j])}
                   first == CHOOSE i \in maxima : \A j \in maxima : i <= j
               IN  /\ c.result.confidence = conf[first]
                   /\ Less(Zero, conf[first]) =>
                         /\ c.result.oracle_type = patterns[first].oracle_type
                         /\ c.result.matched_functions =
                               c.scored[first].matched_functions
                         /\ c.result.matched_storage =
                               c.scored[first].matched_storage
                         /\ c.result.factory_match =
                               Some(c.scored[first].factory_match)

\* C6 witness: a call on a bytecode for which two patterns (uniswap, then
\* pyth) share the highest confidence, and the earlier one was returned.
C6_Witness ==
    \E c \in CallsMade :
        /\ SawCode(c)
        /\ c.result.oracle_type = "uniswap"
        /\ c.scored[3].confidence = c.scored[4].confidence
        /\ c.result.confidence = c.scored[4].confidence.value
        /\ Less(Zero, c.result.confidence)

\* C9: two calls of identify for the same address whose on-chain bytecode is
\* unchanged (both read it from the node, and both got an answer to the
\* transaction lookup) return identical results, whatever blocks were mined
\* between them.
C9_IdentifyDeterministicInBytecode ==
    (/\ id_first # None
     /\ id_second # None
     /\ id_first[1].code_answer = id_second[1].code_answer
     /\ id_first[1].code_answer.ok
     /\ id_first[1].tx_answer.ok
     /\ id_second[1].tx_answer.ok)
    => id_first[1].result = id_second[1].result

\* the deployer of the address is one of the pattern's factory addresses
DeployedByFactoryOf(address, pattern) ==
    \E i \in 1..Len(pattern.factory_addresses) :
        Deployer(address) = pattern.factory_addresses[i]

\* C14: for every pattern that identify(address) evaluates, factory_match is
\* true if and only if the deployer of the contract at the address (the
\* sender of its creation transaction) is one of the pattern's factory
\* addresses.
C14_FactoryMatchIffDeployer ==
    \A c \in CallsMade :
        \A i \in 1..Len(c.scored) :
            c.scored[i].factory_match
                <=> DeployedByFactoryOf(id_address, patterns[i].pattern)

\* the factory check of pattern i could not tell in call c: the lookup failed
\* or the pattern lists no factory address
FactoryUndetermined(c, i) ==
    \/ ~c.tx_answer.ok
    \/ patterns[i].pattern.factory_addresses = <<>>

\* the greatest confidence among the scores of a call
BestScore(c) ==
    CHOOSE v \in {c.scored[i].confidence.value : i \in 1..Len(c.scored)} :
        \A j \in 1..Len(c.scored) : ~Less(v, c.scored[j].confidence.value)

\* C15: the factory check is best-effort: when the lookup of the deployer
\* fails or the pattern has no factory addresses, factory_match is false for
\* that pattern, no error is raised or reported, and identify scores that
\* pattern and all the remaining ones, so that the best bytecode match is
\* still returned.
C15_FactoryCheckBestEffort ==
    \A c \in CallsMade :
        SawCode(c) =>
            /\ Len(c.scored) = Len(patterns)
            /\ \A i \in 1..Len(c.scored) :
                  /\ FactoryUndetermined(c, i) => ~c.scored[i].factory_match
                  /\ c.scored[i].confidence.exc = "none"
                  /\ c.scored[i].confidence =
                        calculate_confidence(c.scored[i].matched_functions,
                                             c.scored[i].matched_storage,
                                             patterns[i].pattern,
                                             c.scored[i].factory_match)
            /\ c.result.error = None
            /\ c.result.confidence = BestScore(c)

\* C15 witness: the lookup failed and identify returned the chainlink
\* pattern on the strength of the bytecode alone.
C15_Witness ==
    \E c \in CallsMade :
        /\ SawCode(c)
        /\ ~c.tx_answer.ok
        /\ c.result.oracle_type = "chainlink"
        /\ c.result.factory_match = Some(FALSE)
        /\ Less(Zero, c.result.confidence)

\* C16: when a step of identify(address) fails unexpectedly, a network error
\* while fetching the bytecode included, the UNKNOWN result returned carries
\* the message of that failure in its error field, so that a failed bytecode
\* fetch can be told from an address that has no code.
C16_FailureMessageInError ==
    \A c \in CallsMade :
        /\ ~c.code_answer.ok =>
              /\ c.result.oracle_type = UNKNOWN
              /\ c.result.error # None
              /\ c.result.error # Some("No contract code found")
        /\ \A i \in 1..Len(c.scored) :
              c.scored[i].confidence.exc # "none" =>
                 /\ c.result.oracle_type = UNKNOWN
                 /\ c.result.error =
                       Some(ErrorMessage(c.scored[i].confidence.exc))

\* C17: if no pattern of the catalog yields a confidence above 0 for a
\* non-empty bytecode, identify(address) returns oracle_type UNKNOWN with
\* confidence 0.0 and empty matched_functions and matched_storage, even when
\* selectors or storage fragments did match below the gate.
C17_NoPositiveScoreIsUnknown ==
    \A c \in CallsMade :
        (/\ SawCode(c)
         /\ \A i \in 1..Len(c.scored) : c.scored[i].confidence = Return(Zero))
        => c.result = OracleIdentificationResult(UNKNOWN, id_address, Zero,
                                                 <<>>, <<>>, None, None)

\* C17 witness: a bytecode in which a chainlink selector matched, below the
\* gate of every pattern, was returned as UNKNOWN.
C17_Witness ==
    \E c \in CallsMade :
        /\ SawCode(c)
        /\ Len(c.scored) = Len(patterns)
        /\ \A i \in 1..Len(c.scored) : c.scored[i].confidence = Return(Zero)
        /\ c.scored[1].matched_functions # <<>>
        /\ c.result.oracle_type = UNKNOWN
        /\ c.result.matched_functions = <<>>

\* the catalog pattern of an oracle type
PatternOf(oracle_type) ==
    patterns[CHOOSE i \in 1..Len(patterns) :
                patterns[i].oracle_type = oracle_type].pattern

\* C26: every result identify_oracle returns has oracle_type UNKNOWN if and
\* only if its confidence is 0.0; and a result of another type has no error,
\* a confidence above 0 and at most 1, and at least as many matched
\* functions as the required_function_matches of its type's pattern.
C26_ResultWellFormed ==
    \A c \in CallsMade :
        /\ c.result.oracle_type = UNKNOWN <=> c.result.confidence = Zero
        /\ c.result.oracle_type # UNKNOWN =>
              /\ c.result.error = None
              /\ Less(Zero, c.result.confidence)
              /\ ~Less(One, c.result.confidence)
              /\ Len(c.result.matched_functions) >=
                    PatternOf(c.result.oracle_type).required_function_matches

\* C26 witness: a contract was returned as chainlink with exactly the three
\* matched functions its pattern requires, and the same address was returned
\* as UNKNOWN when the node failed to give its code.
C26_Witness ==
    /\ id_first # None
    /\ id_second # None
    /\ id_first[1].result.oracle_type = "chainlink"
    /\ Len(id_first[1].result.matched_functions) =
          CHAINLINK_PATTERNS.required_function_matches
    /\ ~id_second[1].code_answer.ok
    /\ id_second[1].result.oracle_type = UNKNOWN

\* a pattern the scorer can score: both lists non-empty and a gate that some
\* number of matched functions passes
WellFormedPattern(pattern) ==
    /\ Len(pattern.function_patterns) >= 1
    /\ Len(pattern.storage_patterns) >= 1
    /\ 1 <= pattern.required_function_matches
    /\ pattern.required_function_matches <= Len(pattern.function_patterns)

\* C27: every pattern of the shipped catalog has at least one function
\* selector, at least one storage fragment and a required_function_matches
\* between 1 and the number of its function selectors; so scoring a shipped
\* pattern never divides by zero: every pattern identify_oracle scores gets
\* a confidence, not an exception.
C27_CatalogWellFormed ==
    /\ \A i \in 1..Len(patterns) : WellFormedPattern(patterns[i].pattern)
    /\ \A c \in CallsMade :
          /\ \A k \in 1..Len(c.scored) : c.scored[k].confidence.exc = "none"
          /\ SawCode(c) => Len(c.scored) = Len(patterns)

\* C27 witness: a contract holding every selector of the tellor pattern was
\* scored against all five patterns and passed tellor's gate.
C27_Witness ==
    \E c \in CallsMade :
        /\ Len(c.scored) = Len(patterns)
        /\ c.result.oracle_type = "tellor"
        /\ c.result.matched_functions = TELLOR_PATTERNS.function_patterns

\* the characters HexBytes.hex() can give
HexAlphabet == {HexDigits[i] : i \in 1..Len(HexDigits)} \cup {"x"}

\* C28: with the shipped catalog matched_storage is empty whatever the
\* bytecode: every storage fragment holds a character hex() never gives.  So
\* the storage term of every score is 0, and identify_oracle never returns a
\* confidence above 0.7, nor above 0.6 for a pattern without factory
\* addresses.
C28_StorageNeverMatches ==
    /\ \A i \in 1..Len(patterns) :
          \A k \in 1..Len(patterns[i].pattern.storage_patterns) :
             \E n \in 1..Len(patterns[i].pattern.storage_patterns[k]) :
                patterns[i].pattern.storage_patterns[k][n] \notin HexAlphabet
    /\ \A c \in CallsMade :
          /\ \A k \in 1..Len(c.scored) : c.scored[k].matched_storage = <<>>
          /\ c.result.matched_storage = <<>>
          /\ ~Less(Double(7, 10), c.result.confidence)
          /\ (/\ c.result.oracle_type # UNKNOWN
              /\ PatternOf(c.result.oracle_type).factory_addresses = <<>>)
             => ~Less(Double(6, 10), c.result.confidence)

\* C28 witness: a contract that holds every chainlink selector and the
\* opcodes 54 and 55, identified while a chainlink factory sent the latest
\* block's first transaction, was returned with confidence 0.7 and no
\* matched storage.
C28_Witness ==
    /\ id_first # None
    /\ id_code = FullContract(CHAINLINK_PATTERNS)
    /\ id_first[1].result.confidence = Double(7, 10)
    /\ id_first[1].result.matched_storage = <<>>
    /\ Contains(hex(id_code), <<"5", "4", "5", "5">>)

(***************************************************************************)
(* OracleAnalysis._analyze_oracles (main.py, lines 76-93)                  *)
(***************************************************************************)
\* a MarketEvent, as far as _analyze_oracles reads it
MarketEvent(id, oracle) == [id |-> id, params |-> [oracle |-> oracle]]

\* line 78
unique_oracles == {market_events[i].params.oracle : i \in 1..Len(market_events)}

\* what the oracle addresses of specification SpecRun hold: nothing, a
\* contract with three chainlink selectors, or one with two uniswap and two
\* pyth selectors
RunBytecodes == {<<>>, ContractCode({1, 2, 3}), ContractCode({3, 4, 5, 6})}

InitRun ==
    /\ FetchIdle
    /\ LookupIdle
    /\ ScorerIdle
    /\ IdentifyIdle
    /\ \E n \in 1..MaxEvents :
          \E oracles \in [1..n -> Addresses] :
              market_events = [i \in 1..n |-> MarketEvent(i, oracles[i])]
    /\ run_code \in [Addresses -> RunBytecodes]
    /\ run_head \in Senders
    /\ run_pc = "loop"
    /\ oracle_analysis = <<>>
    /\ run_calls = <<>>

\* oracle_analysis[address] = analysis
Store(analysis_map, address, analysis) ==
    [a \in (DOMAIN analysis_map) \cup {address} |->
        IF a = address THEN analysis ELSE analysis_map[a]]

\* what a call of identify_oracle(address) with these answers of the node
\* leaves in run_calls
WithAddress(address, call) ==
    [address |-> address, code_answer |-> call.code_answer,
     tx_answer |-> call.tx_answer, result |-> call.result,
     scored |-> call.scored]

RunCall(address, code_ok, tx_ok) ==
    WithAddress(address,
        CallWith(address,
                 IF code_ok THEN CodeAnswer(TRUE, run_code[address])
                 ELSE CodeAnswer(FALSE, <<>>),
                 IF tx_ok THEN TxAnswer(TRUE, run_head)
                 ELSE TxAnswer(FALSE, "")))

\* one round of the loop of lines 81-91, for the next address the set yields
\* (a set has no order: any address not yet visited). identify_oracle
\* catches every Exception itself (identifiers.py, lines 167-176), so the
\* except branch of lines 85-91 is never taken.
AnalyzeOracleStopsOnFailure(oracle_address) ==
    /\ run_pc = "loop"
    /\ oracle_address \in unique_oracles \ DOMAIN oracle_analysis
    /\ \E code_ok \in BOOLEAN, tx_ok \in BOOLEAN :
          /\ run_calls' = Append(run_calls,
                                 RunCall(oracle_address, code_ok, tx_ok))
          /\ IF code_ok /\ tx_ok
             THEN /\ oracle_analysis' =
                        Store(oracle_analysis, oracle_address,
                              run_calls'[Len(run_calls')].result)
                  /\ UNCHANGED run_pc
             ELSE /\ run_pc' = "raised"
                  /\ UNCHANGED oracle_analysis
    /\ UNCHANGED <<market_events, run_code, run_head>>
    /\ UNCHANGED notRun

AnalyzeOraclePerEvent(oracle_address) ==
    /\ run_pc = "loop"
    /\ Len(run_calls) < Len(market_events)
    /\ oracle_address = market_events[Len(run_calls) + 1].params.oracle
    /\ \E code_ok \in BOOLEAN, tx_ok \in BOOLEAN :
          /\ run_calls' = Append(run_calls,
                                 RunCall(oracle_address, code_ok, tx_ok))
          /\ oracle_analysis' =
                Store(oracle_analysis, oracle_address,
                      run_calls'[Len(run_calls')].result)
    /\ UNCHANGED <<market_events, run_code, run_head, run_pc>>
    /\ UNCHANGED notRun

AnalyzeOracle(oracle_address) ==
    /\ run_pc = "loop"
    /\ oracle_address \in unique_oracles \ DOMAIN oracle_analysis
    /\ \E code_ok \in BOOLEAN, tx_ok \in BOOLEAN :
          /\ run_calls' = Append(run_calls,
                                 RunCall(oracle_address, code_ok, tx_ok))
          /\ oracle_analysis' =
                Store(oracle_analysis, oracle_address,
                      run_calls'[Len(run_calls')].result)
    /\ UNCHANGED <<market_events, run_code, run_head, run_pc>>
    /\ UNCHANGED notRun

\* line 93
AnalyzeOraclesReturn ==
    /\ run_pc = "loop"
    /\ unique_oracles \subseteq DOMAIN oracle_analysis
    /\ run_pc' = "returned"
    /\ UNCHANGED <<market_events, run_code, run_head, oracle_analysis, run_calls>>
    /\ UNCHANGED notRun

\* a block is mined while the analysis runs
RunMineBlock ==
    /\ run_pc = "loop"
    /\ \E s \in Senders : run_head' = s
    /\ UNCHANGED <<market_events, run_code, run_pc, oracle_analysis, run_calls>>
    /\ UNCHANGED notRun

NextRun ==
    \/ \E a \in Addresses : AnalyzeOracle(a)
    \/ AnalyzeOraclesReturn
    \/ RunMineBlock

SpecRun == InitRun /\ [][NextRun]_vars

(***************************************************************************)
(* Properties of _analyze_oracles (specification SpecRun).                 *)
(***************************************************************************)
RunCalls == {run_calls[i] : i \in 1..Len(run_calls)}

\* the call had to look up the factory transaction, and the lookup failed
FactoryLookupFailed(c) == SawCode(c) /\ ~c.tx_answer.ok

\* the result of a call that returns UNKNOWN with confidence 0.0
IsUnknownZero(r) == r.oracle_type = UNKNOWN /\ r.confidence = Zero

\* every address of the events has a result, whatever happened to the others
BatchNeverAborted ==
    /\ run_pc # "raised"
    /\ \A i \in 1..Len(run_calls) :
          /\ run_calls[i].address \in DOMAIN oracle_analysis
          /\ oracle_analysis[run_calls[i].address] = run_calls[i].result
    /\ run_pc = "returned" => DOMAIN oracle_analysis = unique_oracles

\* C5 as claimed: identify never propagates a failure: whatever step fails
\* (bytecode fetch, pattern matching, factory check, confidence computation)
\* the call returns oracle_type UNKNOWN and confidence 0.0, so a failure for
\* one address never prevents the classification of the remaining addresses.
C5_AnyFailureIsUnknown ==
    /\ \A c \in RunCalls :
          (\/ ~c.code_answer.ok
           \/ FactoryLookupFailed(c)
           \/ \E i \in 1..Len(c.scored) : c.scored[i].confidence.exc # "none")
          => IsUnknownZero(c.result)
    /\ BatchNeverAborted

\* C5 as amended: identify never propagates a failure: when the bytecode
\* fetch, the pattern matching or the confidence computation fails the call
\* returns oracle_type UNKNOWN and confidence 0.0; when the factory check
\* fails the call takes factory_match as false for that pattern and goes on
\* scoring, so that it may still return a matching pattern; in the batch
\* classification step a failure for one address never prevents the
\* classification of the remaining addresses.
C5_FailuresContained ==
    /\ \A c \in RunCalls :
          /\ (\/ ~c.code_answer.ok
              \/ \E i \in 1..Len(c.scored) : c.scored[i].confidence.exc # "none")
             => IsUnknownZero(c.result)
          /\ FactoryLookupFailed(c) =>
                /\ Len(c.scored) = Len(patterns)
                /\ \A i \in 1..Len(c.scored) : ~c.scored[i].factory_match
                /\ c.result.oracle_type # UNKNOWN =>
                      c.result.factory_match = Some(FALSE)
    /\ BatchNeverAborted

\* C5 witness: the analysis returned although the bytecode fetch failed for
\* the first address visited and the factory lookup failed for the second,
\* which was classified all the same.
C5_Witness ==
    /\ run_pc = "returned"
    /\ Len(run_calls) = 2
    /\ ~run_calls[1].code_answer.ok
    /\ IsUnknownZero(run_calls[1].result)
    /\ FactoryLookupFailed(run_calls[2])
    /\ run_calls[2].result.oracle_type = "chainlink"

\* the calls of identify_oracle made for the address
CallsFor(address) == {i \in 1..Len(run_calls) : run_calls[i].address = address}

\* C20: in an analysis run identify_oracle is called at most once for each
\* distinct oracle address, however many market events refer to it, and
\* when the classification step has finished (before the reports are
\* generated) every oracle address a market event refers to has exactly one
\* entry in the mapping from addresses to results: the result of its call.
C20_OncePerAddress ==
    /\ \A i \in 1..Len(run_calls) : run_calls[i].address \in unique_oracles
    /\ \A a \in Addresses : Cardinality(CallsFor(a)) <= 1
    /\ run_pc = "returned" =>
          /\ DOMAIN oracle_analysis = unique_oracles
          /\ \A i \in 1..Len(market_events) :
                LET a == market_events[i].params.oracle
                IN  /\ Cardinality(CallsFor(a)) = 1
                    /\ \A k \in CallsFor(a) :
                          oracle_analysis[a] = run_calls[k].result

\* C20 witness: the classification of two market events that refer to the
\* same oracle address finished after one call of identify_oracle.
C20_Witness ==
    /\ run_pc = "returned"
    /\ Len(market_events) = 2
    /\ market_events[1].params.oracle = market_events[2].params.oracle
    /\ Len(run_calls) = 1
    /\ DOMAIN oracle_analysis = {market_events[1].params.oracle}

(***************************************************************************)
(* MarketEventFetcher.get_market_params (market/events.py, lines 153-173). *)
(***************************************************************************)

\* str.startswith
startswith(string, prefix) ==
    /\ Len(prefix) <= Len(string)
    /\ SubSeq(string, 1, Len(prefix)) = prefix

\* bytes.fromhex: the bytes, or ValueError for a character that is no
\* hexadecimal digit or for an odd number of digits
fromhex(string) ==
    IF /\ Len(string) % 2 = 0
       /\ \A i \in 1..Len(string) : IsHexDigit(string[i])
    THEN Return(BytesOfHex(string))
    ELSE Raise("ValueError")

\* lines 165-166: the argument handed to idToMarketParams
decode_market_id(market_id) ==
    IF startswith(market_id, <<"0", "x">>)
    THEN fromhex(SubSeq(market_id, 3, Len(market_id)))
    ELSE Return(market_id)

\* MarketParams.from_tuple (market/models.py, lines 15-24)
from_tuple(data) ==
    IF Len(data) < 5
    THEN Raise("IndexError")
    ELSE Return([loan_token |-> data[1], collateral_token |-> data[2],
                 oracle |-> data[3], irm |-> data[4], lltv |-> data[5]])

\* self.contract.functions.idToMarketParams(market_id).call(): the tuple
\* the contract call gives, or an exception.  The contract object is built
\* from the event's ABI alone (lines 48-51); what web3 does with a function
\* that ABI does not name is the library's: any of these answers.
ContractAnswer(ok, result) == [ok |-> ok, result |-> result]

\* get_market_params, lines 163-173
get_market_params_reraises(market_id, answer) ==
    LET decoded == decode_market_id(market_id)
    IN  IF decoded.exc # "none" THEN Raise(decoded.exc)
        ELSE IF ~answer.ok THEN Raise("Web3Exception")
        ELSE LET params == from_tuple(answer.result)
             IN  IF params.exc # "none" THEN Raise(params.exc)
                 ELSE Return(Some(params.value))
get_market_params(market_id, answer) ==
    LET decoded == decode_market_id(market_id)
    IN  IF decoded.exc # "none" THEN Return(None)         \* lines 171-173
        ELSE IF ~answer.ok THEN Return(None)
        ELSE LET params == from_tuple(answer.result)
             IN  IF params.exc # "none" THEN Return(None)
                 ELSE Return(Some(params.value))          \* line 169

(***************************************************************************)
(* Specification SpecLookup: get_market_params called before and after a   *)
(* fetch_events run of the same fetcher over a range of two sub-ranges.    *)
(***************************************************************************)
\* market ids a caller passes: 32 bytes are modelled by 2; a well-formed id
\* in lower and in mixed case, an odd number of digits, a character that is
\* no digit, and an id without the 0x prefix
MarketIds ==
    { <<"0", "x", "a", "b", "0", "1">>,
      <<"0", "x", "A", "b", "0", "1">>,
      <<"0", "x", "a", "b", "0">>,
      <<"0", "x", "z", "z", "0", "1">>,
      <<"a", "b", "0", "1">> }

\* what the contract call can answer: the five market parameters, a tuple
\* that is too short, or an exception
ContractAnswers ==
    { ContractAnswer(TRUE, <<"0xloan", "0xcollateral",
                             "0x1111111111111111111111111111111111111111",
                             "0xirm", "860000000000000000">>),
      ContractAnswer(TRUE, <<"0xloan", "0xcollateral">>),
      ContractAnswer(FALSE, <<>>) }

InitLookup ==
    /\ InitFetch
    /\ log_blocks = {}
    /\ start_block = 0
    /\ end_block = MaxBlock
    /\ batch_size = MaxBatch
    /\ ScorerIdle
    /\ IdentifyIdle
    /\ RunIdle
    /\ LookupIdle

\* one call of get_market_params; Python runs one call at a time, so
\* fetch_events is not in progress
GetMarketParams ==
    /\ pc \in {"call", "returned", "raised"}
    /\ Len(lookups) < MaxLookups
    /\ \E market_id \in MarketIds, answer \in ContractAnswers :
          lookups' = Append(lookups,
              [market_id |-> market_id, answer |-> answer, at |-> pc,
               outcome |-> get_market_params(market_id, answer)])
    /\ UNCHANGED <<fetchVars, scVars, idVars, runVars>>

NextLookup ==
    \/ GetMarketParams
    \/ FetchEvents
    \/ FetchEventsBlockNumberFails
    \/ BatchOk
    \/ BatchRetry
    \/ BatchRetriesExhausted
    \/ BatchOtherError
    \/ BatchFinally
    \/ FetchEventsReturn

SpecLookup == InitLookup /\ [][NextLookup]_vars

(***************************************************************************)
(* Properties of get_market_params (specification SpecLookup).             *)
(***************************************************************************)

\* the contract call of the lookup was reached and gave five parameters
LookupSucceeds(l) ==
    /\ decode_market_id(l.market_id).exc = "none"
    /\ l.answer.ok
    /\ Len(l.answer.result) >= 5

\* the MarketParams of the tuple the contract call gave
ParamsRead(l) ==
    [loan_token |-> l.answer.result[1],
     collateral_token |-> l.answer.result[2],
     oracle |-> l.answer.result[3], irm |-> l.answer.result[4],
     lltv |-> l.answer.result[5]]

\* C22: get_market_params(market_id) returns the MarketParams read from the
\* contract, or None; when decoding the id or the contract call or the
\* reading of its tuple fails it returns None and raises nothing; what it
\* returns is the same for the same id and the same answer of the contract
\* wherever fetch_events stands; and a call leaves every variable of the
\* fetch pipeline as it was.
C22_LookupContained ==
    /\ [](\A i \in 1..Len(lookups) :
             /\ lookups[i].outcome.exc = "none"
             /\ lookups[i].outcome.value =
                   IF LookupSucceeds(lookups[i])
                   THEN Some(ParamsRead(lookups[i]))
                   ELSE None
             /\ \A j \in 1..Len(lookups) :
                   (/\ lookups[i].market_id = lookups[j].market_id
                    /\ lookups[i].answer = lookups[j].answer)
                   => lookups[i].outcome = lookups[j].outcome)
    /\ [][lookups' # lookups => UNCHANGED fetchVars]_vars

\* C22 witness: the same id was looked up before fetch_events ran and after
\* it returned; the contract call failed both times and both calls
\* returned None.
C22_Witness ==
    /\ Len(lookups) = 2
    /\ lookups[1].at = "call"
    /\ lookups[2].at = "returned"
    /\ lookups[1].market_id = lookups[2].market_id
    /\ ~lookups[1].answer.ok
    /\ ~lookups[2].answer.ok
    /\ lookups[1].outcome = Return(None)
    /\ lookups[2].outcome = Return(None)

=============================================================================
